---- MODULE Spec2Model ----
(***************************************************************************)
(* Model of backend/server.py (Glassflow): the jobs collection, the        *)
(* first-stop capacity rule of create_job / update_job, the first-stop     *)
(* count endpoint, the parts-by-distributor aggregation, the sessions, the *)
(* notifications with their push tasks and the Katyshop queue.             *)
(*                                                                         *)
(* The handlers are coroutines of one event loop: a handler runs alone     *)
(* from one await to the next and every "await db..." hands the loop to    *)
(* the other requests.  A request r is therefore a process: pc[r] names    *)
(* the call it is suspended at, loc[r] holds its local variables, and one  *)
(* action of the model is one such call together with the code that        *)
(* follows it up to the next await, or to the response.                    *)
(*                                                                         *)
(* Time is counted in whole hours.  A datetime as the handlers see it is a *)
(* record [day, hour, off]: the wall-clock calendar day, the wall-clock    *)
(* hour and the UTC offset in hours.  The document store keeps an instant  *)
(* as one number, the hours since the epoch in UTC, and hands it back as a *)
(* datetime of offset 0.  An optional value is <<>> (None) or <<v>>.       *)
(* The clock of the sessions, now, and their expiry are counted in days.   *)
(***************************************************************************)
EXTENDS Integers, FiniteSets, Sequences, TLC

VARIABLES users, sessions, now, jobs, nextId, notifications, distributors,
          service_advisors, katyshop_jobs, drawn, pushq, pushlog, resp, pc, loc

vars == <<users, sessions, now, jobs, nextId, notifications, distributors,
          service_advisors, katyshop_jobs, drawn, pushq, pushlog, resp, pc, loc>>

\* the collections, the clock and the push tasks: what a step that only
\* reads leaves alone
data == <<users, sessions, now, jobs, nextId, notifications, distributors,
          service_advisors, katyshop_jobs, drawn, pushq, pushlog>>

\* what the handlers of the jobs collection never write
dbvars == <<users, sessions, now, distributors, service_advisors,
            katyshop_jobs, drawn>>

\* the push tasks that wait for the event loop, and the log of the sends
pushvars == <<pushq, pushlog>>

(* ------------------------------ bounds -------------------------------- *)

\* number of job ids the model hands out
MaxJobs == 4

\* the same, where jobs are handed to distributors
MaxGroupJobs == 3

\* the same, where times carry a UTC offset
MaxTZJobs == 4

\* the same, where first stops are counted
MaxCountJobs == 4

\* the same, where jobs carry parts and distributors
MaxPartsJobs == 3

\* the same, where requests overlap
MaxRaceJobs == 4

\* the same, where push tasks run
MaxNotifyJobs == 2

\* the same, where jobs are deleted
MaxDeleteJobs == 2

\* the distributors, and the service advisors, that are stored at a time
MaxDistributors == 2

\* the same, where single fields are updated
MaxFieldJobs == 2

\* the same, where notifications are marked as read
MaxReadJobs == 2

\* the same, where distributors are deleted
MaxDistJobs == 2

\* the same, where the store may fail
MaxStoreJobs == 2

\* the same, where requests come without a session
MaxGuardJobs == 2

\* the days the clock runs: past the expiry of a session created on day 1
MaxNow == 9

\* the notifications the Katyshop queue writes
MaxKatyNotes == 3


\* the logins the identity provider answers
MaxLogins == 2
(* ------------------------- program constants -------------------------- *)

\* the cap of the capacity check: "if first_stop_count >= 3"
MaxFirstStops == 3

\* timedelta(days=1), in hours
HoursPerDay == 24

\* timedelta(days=7) of create_session, in days
SessionDays == 7

\* to_list(1000) of create_notification_for_all_users
UserListLimit == 1000

\* to_list(1000) of the jobs that get_daily_parts reads
JobListLimit == 1000

\* to_list(100) of the distributors that get_daily_parts reads
DistListLimit == 100

(* --------------------------- optional values -------------------------- *)

None == <<>>

Some(v) == <<v>>

\* Python truthiness of an Optional[str]
Truthy(o) == o # None /\ o[1] # ""

(* ------------------------------ datetimes ----------------------------- *)

\* bson's encoding of a datetime: the wall clock minus the UTC offset
ToUTC(dt) == dt.day * HoursPerDay + dt.hour - dt.off

\* a stored instant read back from the store: a naive datetime in UTC
FromUTC(t) == [day |-> t \div HoursPerDay, hour |-> t % HoursPerDay, off |-> 0]

\* dt.replace(hour=0, minute=0, second=0, microsecond=0): tzinfo is kept
Midnight(dt) == [dt EXCEPT !.hour = 0]

\* dt + timedelta(days=1)
PlusDay(dt) == [dt EXCEPT !.day = dt.day + 1]

\* apt_time.strftime('%Y-%m-%d') of a stored instant: its UTC calendar day
DateStr(t) == t \div HoursPerDay

\* the two bounds of the capacity window as the store compares them
DayWindow(dt) == [lo |-> ToUTC(Midnight(dt)), hi |-> ToUTC(PlusDay(Midnight(dt)))]

(* ------------------------------- inputs ------------------------------- *)

\* appointment times submitted in UTC: 22:00 on day 1 and on day 2
AptUTC == { [day |-> 1, hour |-> 22, off |-> 0],
            [day |-> 2, hour |-> 22, off |-> 0] }

Opt(S) == {None} \cup { Some(x) : x \in S }

\* a request carries a token in the Authorization header or in the cookie
AsAdmin == [bearer |-> Some("tok_admin"), cookie |-> None]

AsTech == [bearer |-> Some("tok_tech"), cookie |-> None]

Anonymous == [bearer |-> None, cookie |-> None]

\* the body of POST /jobs (JobCreate), first-stop fields only
CapCreateInputs(F, A) ==
    { [is_first_stop |-> f, appointment_time |-> a, part_number |-> None,
       distributor |-> None, status |-> "pending", assigned_to |-> None,
       assigned_to_name |-> None] :
         f \in F, a \in A }

\* the date query parameter of GET /jobs/first-stop-count
CountDates ==
    { [valid |-> TRUE, dt |-> [day |-> 1, hour |-> 0, off |-> 0]],
      [valid |-> TRUE, dt |-> [day |-> 2, hour |-> 9, off |-> 0 - 5]],
      [valid |-> FALSE, dt |-> [day |-> 0, hour |-> 0, off |-> 0]] }

Day1 == Some([day |-> 1, hour |-> 22, off |-> 0])

\* bodies of POST /jobs for one day, submitted in UTC
RaceCreates == CapCreateInputs(BOOLEAN, {Day1})

\* the body of PATCH /jobs/{id} that marks a job as first stop
RaceUpdates == { [x \in {"is_first_stop"} |-> TRUE] }

\* bodies of POST /jobs that differ in part, status and appointment
PartsCreates ==
    LET J(p, st, a) == [is_first_stop |-> FALSE, appointment_time |-> a,
                        part_number |-> p, distributor |-> Some("dist_1"),
                        status |-> st, assigned_to |-> None,
                        assigned_to_name |-> None]
        d1  == Some([day |-> 1, hour |-> 22, off |-> 0])
        d1w == Some([day |-> 1, hour |-> 22, off |-> 0 - 5])
    IN { J(Some("WS-100"), "pending", d1),
         J(Some("WS-100"), "pending", d1w),
         J(Some("WS-100"), "cancelled", d1),
         J(Some("WS-100"), "pending", None),
         J(Some(""), "pending", d1),
         J(None, "pending", d1) }

\* the body of POST /jobs for a part of day 1
GroupCreates ==
    { [is_first_stop |-> FALSE,
       appointment_time |-> Some([day |-> 1, hour |-> 22, off |-> 0]),
       part_number |-> Some("WS-100"), distributor |-> Some("dist_1"),
       status |-> "pending", assigned_to |-> None,
       assigned_to_name |-> None] }

\* bodies of PATCH /jobs/{id} that assign a distributor
PartsUpdates == { [x \in {"distributor"} |-> Some(d)] : d \in {"dist_1", "dist_2"} }

\* the requests of the session checks: each token, or none, in the
\* Authorization header and in the cookie
AuthTokens == {"tok_admin", "tok_tech", "tok_new", "tok_tech2", "tok_unknown"}

AuthRequests ==
    [bearer : Opt(AuthTokens), cookie : Opt({"tok_admin", "tok_unknown"})]

\* the callers of DELETE /jobs/{id}: the admin by header and by cookie, the
\* seeded technician, a technician that logged in, and nobody
DeleteRequests ==
    { AsAdmin, AsTech, Anonymous,
      [bearer |-> None, cookie |-> Some("tok_admin")],
      [bearer |-> Some("tok_new"), cookie |-> Some("tok_admin")] }

\* the clients of POST /auth/logout: the technician by header, by cookie and
\* by both, the technician by header with the cookie of the admin, a cookie
\* no session has, and no token
LogoutRequests ==
    { AsTech, Anonymous,
      [bearer |-> None, cookie |-> Some("tok_tech")],
      [bearer |-> Some("tok_tech"), cookie |-> Some("tok_tech")],
      [bearer |-> Some("tok_tech"), cookie |-> Some("tok_admin")],
      [bearer |-> None, cookie |-> Some("tok_unknown")] }

\* the callers of the job requests: the technician and the admin by header,
\* the technician by cookie, a token no session has, and no token
GuardRequests ==
    { AsTech, AsAdmin, Anonymous,
      [bearer |-> None, cookie |-> Some("tok_tech")],
      [bearer |-> Some("tok_unknown"), cookie |-> Some("tok_tech")] }

\* a body of POST /jobs and two bodies of PATCH /jobs/{id} for them
GuardCreates == CapCreateInputs({FALSE}, {None})

GuardUpdates == { [x \in {"status"} |-> st] : st \in {"scheduled", "completed"} }

\* a body of POST /jobs with a part, and bodies of PATCH /jobs/{id} that
\* set one field or two: a status, an assignee, an assignee with a name of
\* the client's choosing, a time with an offset
FieldCreates ==
    { [is_first_stop |-> FALSE, appointment_time |-> Day1,
       part_number |-> Some("WS-100"), distributor |-> None,
       status |-> "pending", assigned_to |-> None,
       assigned_to_name |-> None] }

FieldUpdates ==
    { [x \in {"status"} |-> st] :
         st \in {"scheduled", "in_progress", "completed"} }
    \cup { [x \in {"assigned_to"} |-> Some("u_tech")] }
    \cup { [x \in {"assigned_to", "assigned_to_name"} |->
              IF x = "assigned_to" THEN Some("u_admin") ELSE Some("Zed")] }
    \cup { [x \in {"appointment_time"} |->
              Some([day |-> 1, hour |-> 22, off |-> 0 - 5])] }

\* the ids uuid4 hands out to distributors and to service advisors, in the
\* order it hands them out: none a second time, none that a client made up
DistIds == <<"dist_a", "dist_b", "dist_c", "dist_d">>

AdvisorIds == <<"adv_a", "adv_b", "adv_c", "adv_d">>

Names == {"Acme", "Best"}

\* the user ids of the model
UserIds == {"u_admin", "u_tech", "u_1", "u_2"}

\* what the identity provider answers to a session id: an error status, a
\* body that does not parse, or the email and the session token of a user
ProviderReplies ==
    { [kind |-> "http_error", email |-> "", name |-> "",
       session_token |-> ""],
      [kind |-> "malformed", email |-> "", name |-> "", session_token |-> ""],
      [kind |-> "ok", email |-> "new@glass", name |-> "Ned",
       session_token |-> "tok_new"],
      [kind |-> "ok", email |-> "tech@glass", name |-> "Tom",
       session_token |-> "tok_tech2"] }

\* the distributor ids a client can name: the ids that responses have
\* shown, of distributors that are stored or were deleted, and one that the
\* client made up
DeleteIds ==
    { DistIds[i] : i \in 1 .. drawn.distributors } \cup {"dist_9"}

\* bodies of PATCH /jobs/{id} for the jobs of a distributor: a distributor
\* id, or a status
DistUpdates ==
    { [x \in {"distributor"} |-> Some(d)] : d \in DeleteIds }
        \cup { [x \in {"status"} |-> "completed"] }

\* the callers of the requests on the users: the admin, the seeded
\* technician, a technician that logged in, and nobody
RoleRequests ==
    { AsAdmin, AsTech, Anonymous, [bearer |-> Some("tok_new"), cookie |-> None] }

\* the bodies of POST /users/create-tech: an email no seeded user has (the
\* one the identity provider knows, too) and the email of the technician
TechInputs ==
    { [email |-> "new@glass", name |-> "Ned"],
      [email |-> "tech@glass", name |-> "Tim"] }

\* the role of PATCH /users/{user_id}/role: the two the application knows
\* and another string
Roles == {"admin", "technician", "owner"}

\* the push_token of POST /push-token: an Expo token and another string
PushTokenInputs == {"ExponentPushToken[a]", "fcm-b"}

\* the body of POST /jobs of the notification runs
NotifyCreates == CapCreateInputs({FALSE}, {None})

\* the status of a Katyshop job
KatyStatuses == {"scheduled", "in_progress", "completed"}

\* the body of PATCH /katyshop/jobs/{id}: a status, or other fields only
KatyUpdates == [status : Opt(KatyStatuses)]

\* the date query parameter of GET /parts/daily: "YYYY-MM-DD", the same
\* followed by "T..." and an offset, three numbers that are no calendar date
\* ("2024-13-45"), or text that does not split into three numbers
GroupDates ==
    { [form |-> "date", day |-> 1], [form |-> "garbage", day |-> 0] }

PartsDates ==
    { [form |-> "date", day |-> 1],
      [form |-> "datetime", day |-> 2],
      [form |-> "nodate", day |-> 0],
      [form |-> "garbage", day |-> 0] }

(* ------------------------------ requests ------------------------------ *)

\* the requests that are being served at the same time
Reqs == {1, 2}

\* the locals of a request that runs no handler
NoLocals == [op |-> "none"]

Reply(op, code) == [op |-> op, code |-> code]

\* HTTPException(status_code=401, detail="Not authenticated") of require_auth
NotAuthenticated(op) ==
    [op |-> op, code |-> 401, detail |-> "Not authenticated"]

\* the handler of request r reaches an await: it is suspended at the call
\* named l with the locals f
Suspend(r, l, f) ==
    /\ pc' = [pc EXCEPT ![r] = l]
    /\ loc' = [loc EXCEPT ![r] = f]
    /\ UNCHANGED resp

\* the handler of request r returns or raises: the client is answered a
Return(r, a) ==
    /\ pc' = [pc EXCEPT ![r] = "idle"]
    /\ loc' = [loc EXCEPT ![r] = NoLocals]
    /\ resp' = a

\* request r runs handler op and is suspended at the call named l
Awaits(r, op, l) == pc[r] = l /\ loc[r].op = op

(* -------------------------------- auth -------------------------------- *)

\* the token get_current_user looks for: the one of the Authorization
\* header, else the one of the cookie
session_token(req) == IF req.bearer # None THEN req.bearer ELSE req.cookie

\* db.user_sessions.find_one({"session_token": t}): the first document, in
\* insertion order, that carries the token
find_session(t) ==
    LET idx == { i \in 1 .. Len(sessions) : sessions[i].session_token = t }
    IN IF idx = {} THEN None
       ELSE Some(sessions[CHOOSE i \in idx : \A k \in idx : i <= k])

\* "if not session: return None" and "if expires_at < datetime.now(...):
\* return None"
valid_session(session) ==
    /\ session # None
    /\ ~(session[1].expires_at < now)

\* a guard that takes a request without a token for one of the technician
require_auth_guest(r, call) ==
    /\ pc[r] = "idle"
    /\ UNCHANGED data
    /\ IF Truthy(session_token(call.req))
       THEN Suspend(r, "find_session", call)
       ELSE Suspend(r, "find_user", call @@ [session_user |-> "u_tech"])

\* a handler that asks for a session is called with the arguments call:
\* get_current_user up to "await db.user_sessions.find_one".  Without a
\* token no call is awaited and require_auth raises
require_auth(r, call) ==
    /\ pc[r] = "idle"
    /\ UNCHANGED data
    /\ IF Truthy(session_token(call.req))
       THEN Suspend(r, "find_session", call)
       ELSE Return(r, NotAuthenticated(call.op))

\* "session = await db.user_sessions.find_one(...)" of get_current_user and
\* the comparison of its expiry with the clock, for whatever handler asked
get_current_user(r) ==
    /\ pc[r] = "find_session"
    /\ UNCHANGED data
    /\ LET session == find_session(session_token(loc[r].req)[1])
       IN IF valid_session(session)
          THEN Suspend(r, "find_user",
                       loc[r] @@ [session_user |-> session[1].user_id])
          ELSE Return(r, NotAuthenticated(loc[r].op))

\* db.users.find_one({"user_id": session["user_id"]}) of get_current_user
\* and User(**user_doc): the user of the session request r found, or None
current_user(r) ==
    IF loc[r].session_user \in DOMAIN users
    THEN Some([user_id |-> loc[r].session_user,
               role |-> users[loc[r].session_user].role])
    ELSE None

(* ------------------------- the jobs collection ------------------------ *)

\* a count that forgets the is_first_stop filter
first_stop_count_any_flag(js, w, excl) ==
    Cardinality({ j \in DOMAIN js :
                    /\ j \notin excl
                    /\ js[j].appointment_time # None
                    /\ js[j].appointment_time[1] >= w.lo
                    /\ js[j].appointment_time[1] < w.hi })

\* count_documents({"is_first_stop": True,
\*                  "appointment_time": {"$gte": lo, "$lt": hi}})
first_stop_count(js, w, excl) ==
    Cardinality({ j \in DOMAIN js :
                    /\ j \notin excl
                    /\ js[j].is_first_stop
                    /\ js[j].appointment_time # None
                    /\ js[j].appointment_time[1] >= w.lo
                    /\ js[j].appointment_time[1] < w.hi })

\* the value a field takes in the stored document
Stored(f, v) ==
    IF f = "appointment_time" /\ v # None THEN Some(ToUTC(v[1])) ELSE v

\* db.users.find_one({"user_id": assigned_to}) and assigned_user["name"]:
\* None when no user has the id
name_of(assigned_to) ==
    IF assigned_to[1] \in DOMAIN users
    THEN Some(users[assigned_to[1]].name)
    ELSE None

\* a document that keeps the flag only when a time is set
NewJob_flag_needs_time(in, assigned_to_name) ==
    [is_first_stop    |-> in.is_first_stop /\ in.appointment_time # None,
     appointment_time |-> Stored("appointment_time", in.appointment_time),
     part_number      |-> in.part_number,
     distributor      |-> None,
     status           |-> in.status,
     assigned_to      |-> in.assigned_to,
     assigned_to_name |-> IF Truthy(in.assigned_to_name)
                          THEN in.assigned_to_name
                          ELSE assigned_to_name]

\* the job document create_job builds: the distributor of the request is
\* not copied into it
NewJob(in, assigned_to_name) ==
    [is_first_stop    |-> in.is_first_stop,
     appointment_time |-> Stored("appointment_time", in.appointment_time),
     part_number      |-> in.part_number,
     distributor      |-> None,
     status           |-> in.status,
     assigned_to      |-> in.assigned_to,
     assigned_to_name |-> IF Truthy(in.assigned_to_name)
                          THEN in.assigned_to_name
                          ELSE assigned_to_name]

\* db.users.find({}, {"user_id": 1, "push_token": 1}).to_list(1000): the
\* push token of at most 1000 of the users
find_users ==
    LET ids == IF Cardinality(DOMAIN users) <= UserListLimit THEN DOMAIN users
               ELSE CHOOSE S \in SUBSET DOMAIN users :
                       Cardinality(S) = UserListLimit
    IN [u \in ids |-> users[u].push_token]

\* the list create_notification_for_all_users builds: one unread record per
\* user it found, the creator of the job included
NewNotifications(job_id, listed) ==
    { [user_id |-> u, job_id |-> job_id, type |-> "new_job", read |-> FALSE] :
        u \in DOMAIN listed }

\* the push tokens create_notification_for_all_users collects
push_tokens(listed) ==
    { listed[u][1] : u \in { v \in DOMAIN listed : Truthy(listed[v]) } }

\* asyncio.create_task(send_push_notifications(push_tokens, ...)), started
\* when some user has a push token; the handler does not await it
NewPushTasks(job_id, listed) ==
    IF push_tokens(listed) = {} THEN {}
    ELSE { [job_id |-> job_id, tokens |-> push_tokens(listed)] }

\* the document after update_one({"job_id": id}, {"$set": update_data})
ApplySet(job, update_data) ==
    [f \in DOMAIN job |->
        IF f \in DOMAIN update_data THEN Stored(f, update_data[f])
        ELSE job[f]]

\* a test that forgets to look at the stored flag
flip_to_true_any(current_job, update_data) ==
    /\ "is_first_stop" \in DOMAIN update_data
    /\ update_data["is_first_stop"] = TRUE

\* update_data.get("is_first_stop") == True and
\* not current_job.get("is_first_stop")
flip_to_true(current_job, update_data) ==
    /\ "is_first_stop" \in DOMAIN update_data
    /\ update_data["is_first_stop"] = TRUE
    /\ ~current_job.is_first_stop

\* update_data.get("appointment_time") or current_job.get("appointment_time")
effective_apt(current_job, update_data) ==
    IF /\ "appointment_time" \in DOMAIN update_data
       /\ update_data["appointment_time"] # None
    THEN update_data["appointment_time"]
    ELSE IF current_job.appointment_time # None
    THEN Some(FromUTC(current_job.appointment_time[1]))
    ELSE None

(* ------------------------------ create_job ---------------------------- *)

\* POST /jobs: the call of the handler, up to the second await of
\* require_auth
create_job(r, req, in) ==
    require_auth(r, [op |-> "create_job", req |-> req, in |-> in])

\* create_job from the job document to its next await: the count when the
\* job is a first stop with a time ("if job_data.is_first_stop and
\* job_data.appointment_time"), else the insert
create_job_built(r, f) ==
    IF f.in.is_first_stop /\ f.in.appointment_time # None
    THEN Suspend(r, "count",
                 f @@ [window |-> DayWindow(f.in.appointment_time[1])])
    ELSE Suspend(r, "insert", f)

\* "await db.users.find_one" of get_current_user, and create_job up to its
\* next await: the lookup of the assignee when the request names one
create_job_user(r) ==
    /\ Awaits(r, "create_job", "find_user")
    /\ UNCHANGED data
    /\ LET user == current_user(r)
           f == [op |-> "create_job", in |-> loc[r].in, user |-> user[1],
                 assigned_to_name |-> None]
       IN IF user = None
          THEN Return(r, NotAuthenticated("create_job"))
          ELSE IF Truthy(loc[r].in.assigned_to)
          THEN Suspend(r, "assigned", f)
          ELSE create_job_built(r, f)

\* "await db.users.find_one({"user_id": job_data.assigned_to})"
create_job_assigned(r) ==
    /\ Awaits(r, "create_job", "assigned")
    /\ UNCHANGED data
    /\ create_job_built(r, [loc[r] EXCEPT !.assigned_to_name =
                                            name_of(loc[r].in.assigned_to)])

\* "await db.jobs.count_documents" and "if first_stop_count >= 3"
create_job_count(r) ==
    /\ Awaits(r, "create_job", "count")
    /\ UNCHANGED data
    /\ IF first_stop_count(jobs, loc[r].window, {}) >= MaxFirstStops
       THEN Return(r, Reply("create_job", 400))
       ELSE Suspend(r, "insert", loc[r])

\* an insert that looks at the day once more
create_job_insert_guarded(r) ==
    /\ Awaits(r, "create_job", "insert")
    /\ UNCHANGED <<dbvars, notifications, pushvars>>
    /\ IF /\ "window" \in DOMAIN loc[r]
          /\ first_stop_count(jobs, loc[r].window, {}) >= MaxFirstStops
       THEN /\ Return(r, Reply("create_job", 400))
            /\ UNCHANGED <<jobs, nextId>>
       ELSE /\ jobs' = (nextId :> NewJob(loc[r].in, loc[r].assigned_to_name))
                          @@ jobs
            /\ nextId' = nextId + 1
            /\ Suspend(r, "find_users", loc[r] @@ [job_id |-> nextId])

\* "await db.jobs.insert_one(job)"
create_job_insert(r) ==
    /\ Awaits(r, "create_job", "insert")
    /\ UNCHANGED <<dbvars, notifications, pushvars>>
    /\ jobs' = (nextId :> NewJob(loc[r].in, loc[r].assigned_to_name)) @@ jobs
    /\ nextId' = nextId + 1
    /\ Suspend(r, "find_users", loc[r] @@ [job_id |-> nextId])

\* "users = await db.users.find(...).to_list(1000)" of
\* create_notification_for_all_users; with no user there is nothing to
\* insert and no push to start
create_job_find_users(r) ==
    /\ Awaits(r, "create_job", "find_users")
    /\ UNCHANGED data
    /\ IF DOMAIN find_users = {}
       THEN Return(r, Reply("create_job", 200))
       ELSE Suspend(r, "notify", loc[r] @@ [listed |-> find_users])

\* "await db.notifications.insert_many(notifications)", the start of the
\* push task and "return Job(**job)"; stored tells whether insert_many went
\* through or raised
create_job_notify(r, stored) ==
    /\ Awaits(r, "create_job", "notify")
    /\ UNCHANGED <<dbvars, jobs, nextId, pushlog>>
    /\ IF stored
       THEN /\ notifications' = notifications
                   \cup NewNotifications(loc[r].job_id, loc[r].listed)
            /\ pushq' = pushq \cup NewPushTasks(loc[r].job_id, loc[r].listed)
            /\ Return(r, Reply("create_job", 200))
       ELSE /\ UNCHANGED <<notifications, pushq>>
            /\ Return(r, Reply("create_job", 500))

(* ------------------------------ update_job ---------------------------- *)

\* a body that sets no field
EmptyUpdate == [x \in {} |-> TRUE]

\* PATCH /jobs/{job_id}
update_job(r, req, job_id, upd) ==
    require_auth(r, [op |-> "update_job", req |-> req, job_id |-> job_id,
                     update_data |-> upd])

\* "await db.users.find_one" of get_current_user and "if not update_data"
update_job_user(r) ==
    /\ Awaits(r, "update_job", "find_user")
    /\ UNCHANGED data
    /\ IF current_user(r) = None
       THEN Return(r, NotAuthenticated("update_job"))
       ELSE IF loc[r].update_data = EmptyUpdate
       THEN Return(r, Reply("update_job", 400))
       ELSE Suspend(r, "find", [op |-> "update_job",
                                job_id |-> loc[r].job_id,
                                update_data |-> loc[r].update_data])

\* update_job from the capacity check to its next await: the lookup of the
\* assignee when the request names one, else the write
update_job_checked(r, f) ==
    IF /\ "assigned_to" \in DOMAIN f.update_data
       /\ Truthy(f.update_data["assigned_to"])
    THEN Suspend(r, "assigned", f)
    ELSE Suspend(r, "write", f)

\* "current_job = await db.jobs.find_one({"job_id": job_id})" and the test
\* for the capacity check; of current_job the handler reads is_first_stop
\* and appointment_time, and these are what the request keeps of it
update_job_find(r) ==
    /\ Awaits(r, "update_job", "find")
    /\ UNCHANGED data
    /\ IF loc[r].job_id \notin DOMAIN jobs
       THEN Return(r, Reply("update_job", 404))
       ELSE LET current_job ==
                    [f \in {"is_first_stop", "appointment_time"} |->
                        jobs[loc[r].job_id][f]]
                apt_time == effective_apt(current_job, loc[r].update_data)
                f == loc[r] @@ [current_job |-> current_job]
            IN IF flip_to_true(current_job, loc[r].update_data)
                  /\ apt_time # None
               THEN Suspend(r, "count",
                            f @@ [window |-> DayWindow(apt_time[1])])
               ELSE update_job_checked(r, f)

\* "await db.jobs.count_documents" with "job_id": {"$ne": job_id}, and
\* "if first_stop_count >= 3"
update_job_count(r) ==
    /\ Awaits(r, "update_job", "count")
    /\ UNCHANGED data
    /\ IF first_stop_count(jobs, loc[r].window, {loc[r].job_id})
            >= MaxFirstStops
       THEN Return(r, Reply("update_job", 400))
       ELSE update_job_checked(r, loc[r])

\* "await db.users.find_one({"user_id": update_data["assigned_to"]})" and
\* update_data["assigned_to_name"] = assigned_user["name"]
update_job_assigned(r) ==
    /\ Awaits(r, "update_job", "assigned")
    /\ UNCHANGED data
    /\ LET name == name_of(loc[r].update_data["assigned_to"])
       IN Suspend(r, "write",
                  IF name = None THEN loc[r]
                  ELSE [loc[r] EXCEPT !.update_data =
                           [assigned_to_name |-> name] @@ @])

\* "result = await db.jobs.update_one" and "if result.matched_count == 0"
update_job_write(r) ==
    /\ Awaits(r, "update_job", "write")
    /\ UNCHANGED <<dbvars, nextId, notifications, pushvars>>
    /\ IF loc[r].job_id \notin DOMAIN jobs
       THEN /\ Return(r, Reply("update_job", 404))
            /\ UNCHANGED jobs
       ELSE /\ jobs' = [jobs EXCEPT ![loc[r].job_id] =
                                      ApplySet(@, loc[r].update_data)]
            /\ Suspend(r, "read_back", loc[r])

\* "job = await db.jobs.find_one" and "return Job(**job)": when the job is
\* gone, Job(**None) raises a TypeError and the answer is 500
update_job_read_back(r) ==
    /\ Awaits(r, "update_job", "read_back")
    /\ UNCHANGED data
    /\ IF loc[r].job_id \notin DOMAIN jobs
       THEN Return(r, Reply("update_job", 500))
       ELSE Return(r, [op |-> "update_job", code |-> 200,
                       job |-> jobs[loc[r].job_id]])

(* ------------------------------ delete_job ---------------------------- *)

\* DELETE /jobs/{job_id}
delete_job(r, req, job_id) ==
    require_auth(r, [op |-> "delete_job", req |-> req, job_id |-> job_id])

\* a handler that asks for a session and not for the admin role
delete_job_user_any_role(r) ==
    /\ Awaits(r, "delete_job", "find_user")
    /\ UNCHANGED data
    /\ LET user == current_user(r)
       IN IF user = None
          THEN Return(r, NotAuthenticated("delete_job"))
          ELSE Suspend(r, "delete", [op |-> "delete_job", user |-> user[1],
                                     job_id |-> loc[r].job_id])

\* "await db.users.find_one" of get_current_user and
\* "if user.role != "admin""
delete_job_user(r) ==
    /\ Awaits(r, "delete_job", "find_user")
    /\ UNCHANGED data
    /\ LET user == current_user(r)
       IN IF user = None
          THEN Return(r, NotAuthenticated("delete_job"))
          ELSE IF user[1].role # "admin"
          THEN Return(r, Reply("delete_job", 403))
          ELSE Suspend(r, "delete", [op |-> "delete_job", user |-> user[1],
                                     job_id |-> loc[r].job_id])

\* "result = await db.jobs.delete_one" and "if result.deleted_count == 0"
delete_job_delete(r) ==
    /\ Awaits(r, "delete_job", "delete")
    /\ UNCHANGED <<dbvars, nextId, notifications, pushvars>>
    /\ IF loc[r].job_id \notin DOMAIN jobs
       THEN /\ Return(r, Reply("delete_job", 404))
            /\ UNCHANGED jobs
       ELSE /\ jobs' = [j \in DOMAIN jobs \ {loc[r].job_id} |-> jobs[j]]
            /\ Return(r, Reply("delete_job", 200))

(* ------------------------- get_first_stop_count ----------------------- *)

\* GET /jobs/first-stop-count?date=...
get_first_stop_count(r, req, date) ==
    require_auth(r, [op |-> "get_first_stop_count", req |-> req,
                     date |-> date])

\* "await db.users.find_one" of get_current_user and the parse of the date:
\* fromisoformat raises on a string that is no date, which the except
\* clause turns into 400
get_first_stop_count_user(r) ==
    /\ Awaits(r, "get_first_stop_count", "find_user")
    /\ UNCHANGED data
    /\ IF current_user(r) = None
       THEN Return(r, NotAuthenticated("get_first_stop_count"))
       ELSE IF ~loc[r].date.valid
       THEN Return(r, Reply("get_first_stop_count", 400))
       ELSE Suspend(r, "count", [op |-> "get_first_stop_count",
                                 date |-> loc[r].date.dt,
                                 window |-> DayWindow(loc[r].date.dt)])

\* "count = await db.jobs.count_documents" and the response
get_first_stop_count_count(r) ==
    /\ Awaits(r, "get_first_stop_count", "count")
    /\ UNCHANGED data
    /\ LET count == first_stop_count(jobs, loc[r].window, {})
       IN Return(r, [op |-> "get_first_stop_count", code |-> 200,
                     date |-> loc[r].date, count |-> count,
                     max |-> MaxFirstStops, can_add |-> count < MaxFirstStops])

(* ------------------------ parts by distributor ----------------------- *)

\* to_list(): the documents of a collection in insertion order
RECURSIVE InOrder(_)
InOrder(S) ==
    IF S = {} THEN <<>>
    ELSE LET m == CHOOSE x \in S : \A y \in S : x <= y
         IN <<m>> \o InOrder(S \ {m})

\* f"{year:04d}-{month:02d}-{day:02d}" of the date parameter; three numbers
\* that are no calendar date give a string no appointment formats to
NoSuchDay == 0 - 1

target_date_str(date) == IF date.form = "nodate" THEN NoSuchDay ELSE date.day

\* db.jobs.find({"part_number": {"$ne": None, "$exists": True},
\*               "status": {"$ne": "cancelled"}}).to_list(1000): the first
\* 1000 of the documents that match, in insertion order
all_jobs(js) ==
    LET found == { j \in DOMAIN js :
                     js[j].part_number # None /\ js[j].status # "cancelled" }
    IN IF Cardinality(found) <= JobListLimit THEN found
       ELSE { j \in found :
                Cardinality({ k \in found : k < j }) < JobListLimit }

\* the loop that keeps the jobs whose appointment date string is the target
jobs_on(js, date) ==
    { j \in all_jobs(js) :
        /\ js[j].appointment_time # None
        /\ DateStr(js[j].appointment_time[1]) = target_date_str(date) }

\* [j for j in jobs if j.get("part_number")]
jobs_with_parts(js, date) ==
    { j \in jobs_on(js, date) : Truthy(js[j].part_number) }

\* keys that are listed once for every job that carries them
RECURSIVE GroupKeys_repeated(_, _, _)
GroupKeys_repeated(js, order, seen) ==
    IF order = <<>> THEN <<>>
    ELSE LET d == js[Head(order)].distributor
         IN IF Truthy(d)
            THEN <<d[1]>> \o GroupKeys_repeated(js, Tail(order), seen)
            ELSE GroupKeys_repeated(js, Tail(order), seen)

\* the keys of grouped, in the order the loop first meets them
RECURSIVE GroupKeys(_, _, _)
GroupKeys(js, order, seen) ==
    IF order = <<>> THEN <<>>
    ELSE LET d == js[Head(order)].distributor
         IN IF Truthy(d) /\ d[1] \notin seen
            THEN <<d[1]>> \o GroupKeys(js, Tail(order), seen \cup {d[1]})
            ELSE GroupKeys(js, Tail(order), seen)

\* a grouping that puts a job with a distributor into every group
daily_parts_result_shared(js, dists, date) ==
    LET order == InOrder(jobs_with_parts(js, date))
        InGroup(d) == LET Has(j) == Truthy(js[j].distributor)
                      IN SelectSeq(order, Has)
        NoDist(j) == ~Truthy(js[j].distributor)
        unassigned == SelectSeq(order, NoDist)
        keys == GroupKeys(js, order, {})
        named == DOMAIN dists \cap { keys[i] : i \in 1 .. Len(keys) }
        found == IF Cardinality(named) <= DistListLimit THEN named
                 ELSE CHOOSE S \in SUBSET named :
                         Cardinality(S) = DistListLimit
    IN [op |-> "get_daily_parts", code |-> 200, date |-> date,
        total_parts |-> Len(order),
        total_jobs |-> Cardinality(jobs_on(js, date)),
        distributor_count |-> Len(keys) + (IF unassigned # <<>> THEN 1 ELSE 0),
        by_distributor |->
            [i \in 1 .. Len(keys) |->
               [distributor_id |-> keys[i],
                distributor_name |-> IF keys[i] \in found
                                     THEN dists[keys[i]] ELSE "Unknown",
                parts |-> InGroup(keys[i])]],
        unassigned |-> unassigned]

\* the response of get_daily_parts for the jobs js it read: the groups in
\* the order of their first job, named by the distributors that
\* db.distributors.find({"distributor_id": {"$in": ...}}).to_list(100) found
daily_parts_result(js, dists, date) ==
    LET order == InOrder(jobs_with_parts(js, date))
        InGroup(d) == LET Has(j) == js[j].distributor = Some(d)
                      IN SelectSeq(order, Has)
        NoDist(j) == ~Truthy(js[j].distributor)
        unassigned == SelectSeq(order, NoDist)
        keys == GroupKeys(js, order, {})
        named == DOMAIN dists \cap { keys[i] : i \in 1 .. Len(keys) }
        found == IF Cardinality(named) <= DistListLimit THEN named
                 ELSE CHOOSE S \in SUBSET named :
                         Cardinality(S) = DistListLimit
    IN [op |-> "get_daily_parts", code |-> 200, date |-> date,
        total_parts |-> Len(order),
        total_jobs |-> Cardinality(jobs_on(js, date)),
        distributor_count |-> Len(keys) + (IF unassigned # <<>> THEN 1 ELSE 0),
        by_distributor |->
            [i \in 1 .. Len(keys) |->
               [distributor_id |-> keys[i],
                distributor_name |-> IF keys[i] \in found
                                     THEN dists[keys[i]] ELSE "Unknown",
                parts |-> InGroup(keys[i])]],
        unassigned |-> unassigned]

\* GET /parts/daily?date=...
get_daily_parts(r, req, date) ==
    require_auth(r, [op |-> "get_daily_parts", req |-> req, date |-> date])

\* "await db.users.find_one" of get_current_user and the parse of the date,
\* whose failure the except clause swallows
get_daily_parts_user(r) ==
    /\ Awaits(r, "get_daily_parts", "find_user")
    /\ UNCHANGED data
    /\ IF current_user(r) = None
       THEN Return(r, NotAuthenticated("get_daily_parts"))
       ELSE Suspend(r, "find_jobs", [op |-> "get_daily_parts",
                                     date |-> loc[r].date])

\* "all_jobs = await db.jobs.find(...).to_list(1000)" and the grouping of
\* the documents it returned; a date that does not split into three numbers
\* has left year unbound, and target_date_str raises
get_daily_parts_find_jobs(r) ==
    /\ Awaits(r, "get_daily_parts", "find_jobs")
    /\ UNCHANGED data
    /\ IF loc[r].date.form = "garbage"
       THEN Return(r, Reply("get_daily_parts", 500))
       ELSE Suspend(r, "find_distributors",
                    loc[r] @@ [all_jobs |-> [j \in all_jobs(jobs) |-> jobs[j]]])

\* a report that drops the distributors it cannot name from the jobs
get_daily_parts_find_distributors_clearing(r) ==
    /\ Awaits(r, "get_daily_parts", "find_distributors")
    /\ UNCHANGED <<dbvars, nextId, notifications, pushvars>>
    /\ jobs' = [j \in DOMAIN jobs |->
                  IF Truthy(jobs[j].distributor)
                     /\ jobs[j].distributor[1] \notin DOMAIN distributors
                  THEN [jobs[j] EXCEPT !.distributor = None] ELSE jobs[j]]
    /\ Return(r, daily_parts_result(loc[r].all_jobs, distributors,
                                    loc[r].date))

\* "distributors = await db.distributors.find(...).to_list(100)" and the
\* result, which names the groups by the distributors of that moment
get_daily_parts_find_distributors(r) ==
    /\ Awaits(r, "get_daily_parts", "find_distributors")
    /\ UNCHANGED data
    /\ Return(r, daily_parts_result(loc[r].all_jobs, distributors,
                                    loc[r].date))

(* ------------------------------ sessions ----------------------------- *)

\* f"user_{uuid.uuid4().hex[:12]}": an id no stored user has and no other
\* request has drawn
NewUserId(r) ==
    CHOOSE u \in UserIds :
        /\ u \notin DOMAIN users
        /\ \A q \in Reqs \ {r} :
              (/\ loc[q].op \in {"create_session", "create_technician"}
               /\ "user_id" \in DOMAIN loc[q]) => loc[q].user_id # u

\* the users with one more document
WithUser(user_id, email, name) ==
    (user_id :> [role |-> "technician", email |-> email, name |-> name,
                 push_token |-> None,
                 seq |-> Cardinality(DOMAIN users) + 1]) @@ users

\* POST /auth/session: the call of the handler, which is suspended at
\* "await client.get(...)" until the identity provider answers
create_session(r) ==
    /\ pc[r] = "idle"
    /\ UNCHANGED data
    /\ Suspend(r, "client_get", [op |-> "create_session"])

\* the answer of the identity provider to the X-Session-ID of the request
\* (reply): an error status raises httpx.HTTPError, a body that does not
\* parse another exception; else the handler draws a user id and goes on to
\* users.find_one
create_session_client_get(r, reply) ==
    /\ Awaits(r, "create_session", "client_get")
    /\ UNCHANGED data
    /\ IF reply.kind = "http_error"
       THEN Return(r, Reply("create_session", 400))
       ELSE IF reply.kind = "malformed"
       THEN Return(r, Reply("create_session", 500))
       ELSE Suspend(r, "find_email",
                    [op |-> "create_session", session_data |-> reply,
                     user_id |-> NewUserId(r)])

\* session_doc of create_session, built before insert_one is awaited
SessionDoc(user_id, session_data) ==
    [session_token |-> session_data.session_token,
     user_id |-> user_id,
     expires_at |-> now + SessionDays,
     created_at |-> now]

\* "existing_user = await db.users.find_one({"email": ...})", the first
\* document, in insertion order, that carries the email; when a user has the
\* email the handler goes on to the session document
create_session_find_email(r) ==
    /\ Awaits(r, "create_session", "find_email")
    /\ UNCHANGED data
    /\ LET existing == { u \in DOMAIN users :
                           users[u].email = loc[r].session_data.email }
           user_id == CHOOSE u \in existing :
                          \A v \in existing : users[u].seq <= users[v].seq
       IN IF existing # {}
          THEN Suspend(r, "insert_session",
                       [op |-> "create_session", user_id |-> user_id,
                        session_doc |-> SessionDoc(user_id,
                                                   loc[r].session_data)])
          ELSE Suspend(r, "insert_user", loc[r])

\* "await db.users.insert_one(new_user)" and the session document
create_session_insert_user(r) ==
    /\ Awaits(r, "create_session", "insert_user")
    /\ users' = WithUser(loc[r].user_id, loc[r].session_data.email,
                         loc[r].session_data.name)
    /\ Suspend(r, "insert_session",
               [op |-> "create_session", user_id |-> loc[r].user_id,
                session_doc |-> SessionDoc(loc[r].user_id,
                                           loc[r].session_data)])
    /\ UNCHANGED <<drawn, sessions, now, jobs, nextId, notifications, distributors,
                   service_advisors, katyshop_jobs, pushvars>>

\* "await db.user_sessions.insert_one(session_doc)"
create_session_insert_session(r) ==
    /\ Awaits(r, "create_session", "insert_session")
    /\ sessions' = Append(sessions, loc[r].session_doc)
    /\ Suspend(r, "read_user", loc[r])
    /\ UNCHANGED <<drawn, users, now, jobs, nextId, notifications, distributors,
                   service_advisors, katyshop_jobs, pushvars>>

\* "user = await db.users.find_one({"user_id": user_id})" and the response
create_session_read_user(r) ==
    /\ Awaits(r, "create_session", "read_user")
    /\ UNCHANGED data
    /\ Return(r, [op |-> "create_session", code |-> 200,
                  user |-> IF loc[r].user_id \in DOMAIN users
                           THEN Some(loc[r].user_id) ELSE None])

\* GET /auth/me
get_me(r, req) == require_auth(r, [op |-> "get_me", req |-> req])

\* "await db.users.find_one" of get_current_user and "return user"
get_me_user(r) ==
    /\ Awaits(r, "get_me", "find_user")
    /\ UNCHANGED data
    /\ LET user == current_user(r)
       IN IF user = None
          THEN Return(r, NotAuthenticated("get_me"))
          ELSE Return(r, [op |-> "get_me", code |-> 200,
                          user |-> user[1].user_id])

\* db.user_sessions.delete_one({"session_token": t}): the sessions without
\* the first document that carries the token
delete_session(t) ==
    LET idx == { i \in 1 .. Len(sessions) : sessions[i].session_token = t }
        first == CHOOSE i \in idx : \A k \in idx : i <= k
    IN IF idx = {} THEN sessions
       ELSE [i \in 1 .. Len(sessions) - 1 |->
               IF i < first THEN sessions[i] ELSE sessions[i + 1]]

\* POST /auth/logout: the token is read from the cookie alone; without a
\* cookie the handler answers at once, with one it is suspended at
\* delete_one
logout(r, req) ==
    /\ pc[r] = "idle"
    /\ UNCHANGED data
    /\ IF Truthy(req.cookie)
       THEN Suspend(r, "delete_session", [op |-> "logout", req |-> req])
       ELSE Return(r, Reply("logout", 200))

\* "await db.user_sessions.delete_one" and the response, which is the same
\* whether or not a session was deleted
logout_delete_session(r) ==
    /\ Awaits(r, "logout", "delete_session")
    /\ sessions' = delete_session(loc[r].req.cookie[1])
    /\ Return(r, Reply("logout", 200))
    /\ UNCHANGED <<drawn, users, now, jobs, nextId, notifications, distributors,
                   service_advisors, katyshop_jobs, pushvars>>

\* datetime.now(timezone.utc) moves on by a day
time_passes ==
    /\ now' = now + 1
    /\ UNCHANGED <<drawn, users, sessions, jobs, nextId, notifications, distributors,
                   service_advisors, katyshop_jobs, pushvars, resp, pc, loc>>

(* -------------------------------- users ------------------------------ *)

\* POST /users/create-tech
create_technician(r, req, tech_data) ==
    require_auth(r, [op |-> "create_technician", req |-> req,
                     tech_data |-> tech_data])

\* "await db.users.find_one" of get_current_user and
\* "if current_user.role != "admin""
create_technician_user(r) ==
    /\ Awaits(r, "create_technician", "find_user")
    /\ UNCHANGED data
    /\ LET user == current_user(r)
       IN IF user = None
          THEN Return(r, NotAuthenticated("create_technician"))
          ELSE IF user[1].role # "admin"
          THEN Return(r, Reply("create_technician", 403))
          ELSE Suspend(r, "find_email",
                       [op |-> "create_technician", user |-> user[1],
                        tech_data |-> loc[r].tech_data])

\* "existing = await db.users.find_one({"email": tech_data.email})"
create_technician_find_email(r) ==
    /\ Awaits(r, "create_technician", "find_email")
    /\ UNCHANGED data
    /\ IF \E u \in DOMAIN users : users[u].email = loc[r].tech_data.email
       THEN Return(r, Reply("create_technician", 400))
       ELSE Suspend(r, "insert_user", loc[r] @@ [user_id |-> NewUserId(r)])

\* "await db.users.insert_one(new_tech)"
create_technician_insert_user(r) ==
    /\ Awaits(r, "create_technician", "insert_user")
    /\ users' = WithUser(loc[r].user_id, loc[r].tech_data.email,
                         loc[r].tech_data.name)
    /\ Return(r, Reply("create_technician", 200))
    /\ UNCHANGED <<drawn, sessions, now, jobs, nextId, notifications, distributors,
                   service_advisors, katyshop_jobs, pushvars>>

\* PATCH /users/{user_id}/role
update_user_role(r, req, user_id, role) ==
    require_auth(r, [op |-> "update_user_role", req |-> req,
                     user_id |-> user_id, role |-> role])

\* a handler that asks for a session and not for the admin role
update_user_role_user_any_caller(r) ==
    /\ Awaits(r, "update_user_role", "find_user")
    /\ UNCHANGED data
    /\ LET user == current_user(r)
       IN IF user = None
          THEN Return(r, NotAuthenticated("update_user_role"))
          ELSE Suspend(r, "update",
                       [op |-> "update_user_role", user |-> user[1],
                        user_id |-> loc[r].user_id, role |-> loc[r].role])

\* "await db.users.find_one" of get_current_user and
\* "if current_user.role != "admin""
update_user_role_user(r) ==
    /\ Awaits(r, "update_user_role", "find_user")
    /\ UNCHANGED data
    /\ LET user == current_user(r)
       IN IF user = None
          THEN Return(r, NotAuthenticated("update_user_role"))
          ELSE IF user[1].role # "admin"
          THEN Return(r, Reply("update_user_role", 403))
          ELSE Suspend(r, "update",
                       [op |-> "update_user_role", user |-> user[1],
                        user_id |-> loc[r].user_id, role |-> loc[r].role])

\* "await db.users.update_one({"user_id": user_id}, {"$set": {"role":
\* role}})": the role is any string, and the answer is 200 also when no
\* user has the id
update_user_role_update(r) ==
    /\ Awaits(r, "update_user_role", "update")
    /\ users' = IF loc[r].user_id \in DOMAIN users
                THEN [users EXCEPT ![loc[r].user_id].role = loc[r].role]
                ELSE users
    /\ Return(r, Reply("update_user_role", 200))
    /\ UNCHANGED <<drawn, sessions, now, jobs, nextId, notifications, distributors,
                   service_advisors, katyshop_jobs, pushvars>>

(* ---------------------------- notifications -------------------------- *)

\* the notification_id of a stored notification, f"notif_{uuid4().hex[:12]}":
\* one per document, so it is the document without what an update changes
notification_id(n) == [f \in DOMAIN n \ {"read"} |-> n[f]]

\* db.notifications.count_documents({"user_id": u, "read": False})
unread_count(u) ==
    Cardinality({ n \in notifications : n.user_id = u /\ ~n.read })

\* the notifications after {"$set": {"read": True}} on the documents in hit
SetRead(hit) ==
    (notifications \ hit) \cup { [n EXCEPT !.read = TRUE] : n \in hit }

\* GET /notifications/unread-count
get_unread_count(r, req) ==
    require_auth(r, [op |-> "get_unread_count", req |-> req])

\* "await db.users.find_one" of get_current_user
get_unread_count_user(r) ==
    /\ Awaits(r, "get_unread_count", "find_user")
    /\ UNCHANGED data
    /\ LET user == current_user(r)
       IN IF user = None
          THEN Return(r, NotAuthenticated("get_unread_count"))
          ELSE Suspend(r, "count", [op |-> "get_unread_count",
                                    user |-> user[1]])

\* "count = await db.notifications.count_documents" and the response
get_unread_count_count(r) ==
    /\ Awaits(r, "get_unread_count", "count")
    /\ UNCHANGED data
    /\ Return(r, [op |-> "get_unread_count", code |-> 200,
                  unread_count |-> unread_count(loc[r].user.user_id)])

\* POST /notifications/{notification_id}/read
mark_notification_read(r, req, nid) ==
    require_auth(r, [op |-> "mark_notification_read", req |-> req,
                     notification_id |-> nid])

\* "await db.users.find_one" of get_current_user
mark_notification_read_user(r) ==
    /\ Awaits(r, "mark_notification_read", "find_user")
    /\ UNCHANGED data
    /\ LET user == current_user(r)
       IN IF user = None
          THEN Return(r, NotAuthenticated("mark_notification_read"))
          ELSE Suspend(r, "update",
                       [op |-> "mark_notification_read", user |-> user[1],
                        notification_id |-> loc[r].notification_id])

\* an update that looks for the notification_id alone
mark_notification_read_update_any_owner(r) ==
    /\ Awaits(r, "mark_notification_read", "update")
    /\ notifications' =
          SetRead({ n \in notifications :
                      notification_id(n) = loc[r].notification_id })
    /\ Return(r, Reply("mark_notification_read", 200))
    /\ UNCHANGED <<dbvars, jobs, nextId, pushvars>>

\* "await db.notifications.update_one({"notification_id": ..., "user_id":
\* user.user_id}, {"$set": {"read": True}})": answered 200 whether or not a
\* document matched
mark_notification_read_update(r) ==
    /\ Awaits(r, "mark_notification_read", "update")
    /\ notifications' =
          SetRead({ n \in notifications :
                      /\ notification_id(n) = loc[r].notification_id
                      /\ n.user_id = loc[r].user.user_id })
    /\ Return(r, Reply("mark_notification_read", 200))
    /\ UNCHANGED <<dbvars, jobs, nextId, pushvars>>

\* POST /notifications/mark-all-read
mark_all_notifications_read(r, req) ==
    require_auth(r, [op |-> "mark_all_notifications_read", req |-> req])

\* "await db.users.find_one" of get_current_user
mark_all_notifications_read_user(r) ==
    /\ Awaits(r, "mark_all_notifications_read", "find_user")
    /\ UNCHANGED data
    /\ LET user == current_user(r)
       IN IF user = None
          THEN Return(r, NotAuthenticated("mark_all_notifications_read"))
          ELSE Suspend(r, "update", [op |-> "mark_all_notifications_read",
                                     user |-> user[1]])

\* "await db.notifications.update_many({"user_id": user.user_id, "read":
\* False}, {"$set": {"read": True}})"
mark_all_notifications_read_update(r) ==
    /\ Awaits(r, "mark_all_notifications_read", "update")
    /\ notifications' =
          SetRead({ n \in notifications :
                      n.user_id = loc[r].user.user_id /\ ~n.read })
    /\ Return(r, Reply("mark_all_notifications_read", 200))
    /\ UNCHANGED <<dbvars, jobs, nextId, pushvars>>

(* --------------------------- push notifications ----------------------- *)

\* token.startswith("ExponentPushToken")
is_expo_token(token) == token \in {"ExponentPushToken[a]", "ExponentPushToken[b]"}

\* POST /push-token
register_push_token(r, req, token) ==
    require_auth(r, [op |-> "register_push_token", req |-> req,
                     push_token |-> token])

\* "await db.users.find_one" of get_current_user
register_push_token_user(r) ==
    /\ Awaits(r, "register_push_token", "find_user")
    /\ UNCHANGED data
    /\ LET user == current_user(r)
       IN IF user = None
          THEN Return(r, NotAuthenticated("register_push_token"))
          ELSE Suspend(r, "update",
                       [op |-> "register_push_token", user |-> user[1],
                        push_token |-> loc[r].push_token])

\* "await db.users.update_one({"user_id": user.user_id}, {"$set":
\* {"push_token": ...}})"
register_push_token_update(r) ==
    /\ Awaits(r, "register_push_token", "update")
    /\ users' = IF loc[r].user.user_id \in DOMAIN users
                THEN [users EXCEPT ![loc[r].user.user_id].push_token =
                                      Some(loc[r].push_token)]
                ELSE users
    /\ Return(r, Reply("register_push_token", 200))
    /\ UNCHANGED <<drawn, sessions, now, jobs, nextId, notifications, distributors,
                   service_advisors, katyshop_jobs, pushvars>>

\* the sends that were made for the event of job j
Attempts(j) == Cardinality({ a \in pushlog : a.job_id = j })

\* a send that puts its task back when the post failed
send_push_notifications_retrying(t, delivered) ==
    /\ t \in pushq
    /\ LET messages == { token \in t.tokens : is_expo_token(token) }
       IN /\ pushq' = IF messages # {} /\ ~delivered THEN pushq
                      ELSE pushq \ {t}
          /\ pushlog' = IF messages = {} THEN pushlog
                        ELSE pushlog \cup { [job_id |-> t.job_id,
                                             n |-> Attempts(t.job_id) + 1,
                                             ok |-> delivered] }
    /\ UNCHANGED <<dbvars, jobs, nextId, notifications, resp, pc, loc>>

\* the task of send_push_notifications runs: one post to the push service
\* with a message per Expo token; delivered tells whether the post went
\* through or raised, which the except clause logs
send_push_notifications(t, delivered) ==
    /\ t \in pushq
    /\ pushq' = pushq \ {t}
    /\ LET messages == { token \in t.tokens : is_expo_token(token) }
       IN pushlog' = IF messages = {} THEN pushlog
                     ELSE pushlog \cup { [job_id |-> t.job_id,
                                          n |-> Attempts(t.job_id) + 1,
                                          ok |-> delivered] }
    /\ UNCHANGED <<dbvars, jobs, nextId, notifications, resp, pc, loc>>

(* ----------------------------- Katyshop jobs -------------------------- *)

\* POST /katyshop/jobs
create_katyshop_job(r, req) ==
    require_auth(r, [op |-> "create_katyshop_job", req |-> req])

\* "await db.users.find_one" of get_current_user; the handler then
\* subscripts the User object that require_auth returned
\* (user["user_id"]), which raises before insert_one is reached
create_katyshop_job_user(r) ==
    /\ Awaits(r, "create_katyshop_job", "find_user")
    /\ UNCHANGED data
    /\ IF current_user(r) = None
       THEN Return(r, NotAuthenticated("create_katyshop_job"))
       ELSE Return(r, Reply("create_katyshop_job", 500))

\* PATCH /katyshop/jobs/{job_id}
update_katyshop_job(r, req, job_id, upd) ==
    require_auth(r, [op |-> "update_katyshop_job", req |-> req,
                     job_id |-> job_id, job_data |-> upd])

\* "await db.users.find_one" of get_current_user
update_katyshop_job_user(r) ==
    /\ Awaits(r, "update_katyshop_job", "find_user")
    /\ UNCHANGED data
    /\ IF current_user(r) = None
       THEN Return(r, NotAuthenticated("update_katyshop_job"))
       ELSE Suspend(r, "find", [op |-> "update_katyshop_job",
                                job_id |-> loc[r].job_id,
                                job_data |-> loc[r].job_data])

\* "existing_job = await db.katyshop_jobs.find_one({"job_id": job_id})"
update_katyshop_job_find(r) ==
    /\ Awaits(r, "update_katyshop_job", "find")
    /\ UNCHANGED data
    /\ IF loc[r].job_id \notin DOMAIN katyshop_jobs
       THEN Return(r, Reply("update_katyshop_job", 404))
       ELSE Suspend(r, "update",
                    loc[r] @@ [existing_job |-> katyshop_jobs[loc[r].job_id]])

\* "if new_status == "completed" and old_status != "completed""
notifies_completion(existing_job, job_data) ==
    /\ job_data.status = Some("completed")
    /\ existing_job.status # "completed"

\* "await db.katyshop_jobs.update_one({"job_id": job_id}, {"$set":
\* update_data})" and the test for the notification
update_katyshop_job_update(r) ==
    /\ Awaits(r, "update_katyshop_job", "update")
    /\ katyshop_jobs' =
          IF loc[r].job_data.status = None
             \/ loc[r].job_id \notin DOMAIN katyshop_jobs
          THEN katyshop_jobs
          ELSE [katyshop_jobs EXCEPT ![loc[r].job_id].status =
                                        loc[r].job_data.status[1]]
    /\ IF notifies_completion(loc[r].existing_job, loc[r].job_data)
       THEN Suspend(r, "notify", loc[r])
       ELSE Suspend(r, "read_back", loc[r])
    /\ UNCHANGED <<drawn, users, sessions, now, jobs, nextId, notifications,
                   distributors, service_advisors, pushvars>>

\* the record update_katyshop_job builds for the creator of the job
CompletionNotification(job_id, existing_job) ==
    [user_id |-> existing_job.created_by, job_id |-> job_id,
     type |-> "katyshop", read |-> FALSE,
     seq |-> Cardinality(notifications) + 1]

\* "await db.notifications.insert_one(notification)": stored tells whether
\* it went through or raised; the except clause logs the exception and the
\* handler goes on to the read of the updated job
update_katyshop_job_notify(r, stored) ==
    /\ Awaits(r, "update_katyshop_job", "notify")
    /\ IF stored
       THEN /\ notifications' = notifications
                   \cup {CompletionNotification(loc[r].job_id,
                                                loc[r].existing_job)}
            /\ Suspend(r, "find_creator", loc[r])
       ELSE /\ UNCHANGED notifications
            /\ Suspend(r, "read_back", loc[r])
    /\ UNCHANGED <<dbvars, jobs, nextId, pushvars>>

\* "creator_user = await db.users.find_one({"user_id": creator_id})" and
\* the publish to the push service, which writes nothing to the store
update_katyshop_job_find_creator(r) ==
    /\ Awaits(r, "update_katyshop_job", "find_creator")
    /\ UNCHANGED data
    /\ Suspend(r, "read_back", loc[r])

\* "updated_job = await db.katyshop_jobs.find_one" and
\* "return KatyshopJob(**updated_job)", which raises when the job is gone
update_katyshop_job_read_back(r) ==
    /\ Awaits(r, "update_katyshop_job", "read_back")
    /\ UNCHANGED data
    /\ IF loc[r].job_id \notin DOMAIN katyshop_jobs
       THEN Return(r, Reply("update_katyshop_job", 500))
       ELSE Return(r, Reply("update_katyshop_job", 200))


\* DELETE /katyshop/jobs/{job_id}
delete_katyshop_job(r, req, job_id) ==
    require_auth(r, [op |-> "delete_katyshop_job", req |-> req,
                     job_id |-> job_id])

\* "await db.users.find_one" of get_current_user
delete_katyshop_job_user(r) ==
    /\ Awaits(r, "delete_katyshop_job", "find_user")
    /\ UNCHANGED data
    /\ IF current_user(r) = None
       THEN Return(r, NotAuthenticated("delete_katyshop_job"))
       ELSE Suspend(r, "delete", [op |-> "delete_katyshop_job",
                                  job_id |-> loc[r].job_id])

\* "result = await db.katyshop_jobs.delete_one" and
\* "if result.deleted_count == 0"
delete_katyshop_job_delete(r) ==
    /\ Awaits(r, "delete_katyshop_job", "delete")
    /\ UNCHANGED <<drawn, users, sessions, now, jobs, nextId, notifications,
                   distributors, service_advisors, pushvars>>
    /\ IF loc[r].job_id \notin DOMAIN katyshop_jobs
       THEN /\ Return(r, Reply("delete_katyshop_job", 404))
            /\ UNCHANGED katyshop_jobs
       ELSE /\ katyshop_jobs' =
                  [k \in DOMAIN katyshop_jobs \ {loc[r].job_id} |->
                     katyshop_jobs[k]]
            /\ Return(r, Reply("delete_katyshop_job", 200))
(* -------------------- distributors and service advisors --------------- *)

\* f"dist_{uuid.uuid4().hex[:12]}": an id that was never drawn before and
\* that no client has made up
NewDistributorId == DistIds[drawn.distributors + 1]

\* f"adv_{uuid.uuid4().hex[:12]}": an id that was never drawn before
NewAdvisorId == AdvisorIds[drawn.service_advisors + 1]

\* db.distributors.find_one({"name": name}) finds a document
name_exists(collection, name) ==
    \E d \in DOMAIN collection : collection[d] = name

\* POST /distributors
create_distributor(r, req, name) ==
    require_auth(r, [op |-> "create_distributor", req |-> req,
                     name |-> name])

\* "await db.users.find_one" of get_current_user
create_distributor_user(r) ==
    /\ Awaits(r, "create_distributor", "find_user")
    /\ UNCHANGED data
    /\ IF current_user(r) = None
       THEN Return(r, NotAuthenticated("create_distributor"))
       ELSE Suspend(r, "find", [op |-> "create_distributor",
                                name |-> loc[r].name])

\* "existing = await db.distributors.find_one({"name": ...})"
create_distributor_find(r) ==
    /\ Awaits(r, "create_distributor", "find")
    /\ UNCHANGED data
    /\ IF name_exists(distributors, loc[r].name)
       THEN Return(r, Reply("create_distributor", 400))
       ELSE Suspend(r, "insert", loc[r])

\* "await db.distributors.insert_one(...)" and the response
create_distributor_insert(r) ==
    /\ Awaits(r, "create_distributor", "insert")
    /\ distributors' = (NewDistributorId :> loc[r].name) @@ distributors
    /\ drawn' = [drawn EXCEPT !.distributors = @ + 1]
    /\ Return(r, Reply("create_distributor", 200))
    /\ UNCHANGED <<users, sessions, now, service_advisors, katyshop_jobs,
                   pushvars, jobs, nextId, notifications>>

\* POST /service-advisors
create_service_advisor(r, req, name) ==
    require_auth(r, [op |-> "create_service_advisor", req |-> req,
                     name |-> name])

\* "await db.users.find_one" of get_current_user
create_service_advisor_user(r) ==
    /\ Awaits(r, "create_service_advisor", "find_user")
    /\ UNCHANGED data
    /\ IF current_user(r) = None
       THEN Return(r, NotAuthenticated("create_service_advisor"))
       ELSE Suspend(r, "find", [op |-> "create_service_advisor",
                                name |-> loc[r].name])

\* "existing = await db.service_advisors.find_one({"name": ...})"
create_service_advisor_find(r) ==
    /\ Awaits(r, "create_service_advisor", "find")
    /\ UNCHANGED data
    /\ IF name_exists(service_advisors, loc[r].name)
       THEN Return(r, Reply("create_service_advisor", 400))
       ELSE Suspend(r, "insert", loc[r])

\* "await db.service_advisors.insert_one(...)" and the response
create_service_advisor_insert(r) ==
    /\ Awaits(r, "create_service_advisor", "insert")
    /\ service_advisors' = (NewAdvisorId :> loc[r].name) @@ service_advisors
    /\ drawn' = [drawn EXCEPT !.service_advisors = @ + 1]
    /\ Return(r, Reply("create_service_advisor", 200))
    /\ UNCHANGED <<users, sessions, now, distributors, katyshop_jobs,
                   pushvars, jobs, nextId, notifications>>

\* the exchange of DELETE /distributors/{id}
Deleted(distributor_id, code) ==
    [op |-> "delete_distributor", code |-> code,
     distributor_id |-> distributor_id]

\* DELETE /distributors/{distributor_id}
delete_distributor(r, req, distributor_id) ==
    require_auth(r, [op |-> "delete_distributor", req |-> req,
                     distributor_id |-> distributor_id])

\* "await db.users.find_one" of get_current_user
delete_distributor_user(r) ==
    /\ Awaits(r, "delete_distributor", "find_user")
    /\ UNCHANGED data
    /\ IF current_user(r) = None
       THEN Return(r, NotAuthenticated("delete_distributor"))
       ELSE Suspend(r, "delete", [op |-> "delete_distributor",
                                  distributor_id |-> loc[r].distributor_id])

\* "result = await db.distributors.delete_one" and
\* "if result.deleted_count == 0"
delete_distributor_delete(r) ==
    /\ Awaits(r, "delete_distributor", "delete")
    /\ UNCHANGED <<drawn, users, sessions, now, service_advisors, katyshop_jobs,
                   pushvars, jobs, nextId, notifications>>
    /\ IF loc[r].distributor_id \notin DOMAIN distributors
       THEN /\ Return(r, Deleted(loc[r].distributor_id, 404))
            /\ UNCHANGED distributors
       ELSE /\ distributors' =
                  [d \in DOMAIN distributors \ {loc[r].distributor_id} |->
                     distributors[d]]
            /\ Suspend(r, "clear_jobs", loc[r])

\* a delete that leaves the jobs alone
delete_distributor_clear_jobs_only(r) ==
    /\ Awaits(r, "delete_distributor", "clear_jobs")
    /\ UNCHANGED data
    /\ Return(r, Deleted(loc[r].distributor_id, 200))

\* "await db.jobs.update_many({"distributor": distributor_id}, {"$set":
\* {"distributor": None}})" and the response
delete_distributor_clear_jobs(r) ==
    /\ Awaits(r, "delete_distributor", "clear_jobs")
    /\ jobs' = [j \in DOMAIN jobs |->
                  IF jobs[j].distributor = Some(loc[r].distributor_id)
                  THEN [jobs[j] EXCEPT !.distributor = None]
                  ELSE jobs[j]]
    /\ Return(r, Deleted(loc[r].distributor_id, 200))
    /\ UNCHANGED <<dbvars, nextId, notifications, pushvars>>

\* DELETE /service-advisors/{advisor_id}
delete_service_advisor(r, req, advisor_id) ==
    require_auth(r, [op |-> "delete_service_advisor", req |-> req,
                     advisor_id |-> advisor_id])

\* "await db.users.find_one" of get_current_user
delete_service_advisor_user(r) ==
    /\ Awaits(r, "delete_service_advisor", "find_user")
    /\ UNCHANGED data
    /\ IF current_user(r) = None
       THEN Return(r, NotAuthenticated("delete_service_advisor"))
       ELSE Suspend(r, "delete", [op |-> "delete_service_advisor",
                                  advisor_id |-> loc[r].advisor_id])

\* "result = await db.service_advisors.delete_one" and
\* "if result.deleted_count == 0"
delete_service_advisor_delete(r) ==
    /\ Awaits(r, "delete_service_advisor", "delete")
    /\ UNCHANGED <<drawn, users, sessions, now, distributors, katyshop_jobs,
                   pushvars, jobs, nextId, notifications>>
    /\ IF loc[r].advisor_id \notin DOMAIN service_advisors
       THEN /\ Return(r, Reply("delete_service_advisor", 404))
            /\ UNCHANGED service_advisors
       ELSE /\ service_advisors' =
                  [a \in DOMAIN service_advisors \ {loc[r].advisor_id} |->
                     service_advisors[a]]
            /\ Return(r, Reply("delete_service_advisor", 200))

(* ------------------------- the specification -------------------------- *)

\* a deployment seeded the way backend_test.py seeds it: users and their
\* sessions are inserted into the store directly, no request is being
\* served
InitUsers ==
    /\ users = [u \in {"u_admin", "u_tech"} |->
                  [role |-> IF u = "u_admin" THEN "admin" ELSE "technician",
                   email |-> IF u = "u_admin" THEN "admin@glass" ELSE "tech@glass",
                   name |-> IF u = "u_admin" THEN "Ada" ELSE "Tom",
                   push_token |-> None,
                   seq |-> IF u = "u_admin" THEN 1 ELSE 2]]
    /\ sessions = << [session_token |-> "tok_admin", user_id |-> "u_admin",
                      expires_at |-> SessionDays, created_at |-> 0],
                     [session_token |-> "tok_tech", user_id |-> "u_tech",
                      expires_at |-> SessionDays, created_at |-> 0] >>
    /\ now = 0
    /\ notifications = {}
    /\ distributors = [d \in {} |-> ""]
    /\ service_advisors = [a \in {} |-> ""]
    /\ drawn = [distributors |-> 0, service_advisors |-> 0]
    /\ pushq = {}
    /\ pushlog = {}
    /\ resp = Reply("none", 0)
    /\ pc = [r \in Reqs |-> "idle"]
    /\ loc = [r \in Reqs |-> NoLocals]

\* the same, and every collection of the application is empty
InitStore ==
    /\ InitUsers
    /\ jobs = [j \in {} |-> 0]
    /\ nextId = 1

Init == InitStore /\ katyshop_jobs = [k \in {} |-> 0]

\* the number of create_job requests that have yet to draw their job id
Creating ==
    Cardinality({ r \in Reqs :
                    /\ loc[r].op = "create_job"
                    /\ pc[r] \in {"find_session", "find_user", "assigned", "count",
                                  "insert"} })

\* the steps of create_job after its call, insert_many going through
create_job_steps(r) ==
    \/ create_job_user(r)
    \/ create_job_count(r)
    \/ create_job_insert(r)
    \/ create_job_find_users(r)
    \/ create_job_notify(r, TRUE)

\* the steps of update_job after its call
update_job_steps(r) ==
    \/ update_job_user(r)
    \/ update_job_find(r)
    \/ update_job_count(r)
    \/ update_job_write(r)
    \/ update_job_read_back(r)

\* the steps of a create_job that runs no capacity check
create_job_unchecked_steps(r) ==
    \/ create_job_user(r)
    \/ create_job_insert(r)
    \/ create_job_find_users(r)
    \/ create_job_notify(r, TRUE)

\* the steps of an update_job that runs no capacity check
update_job_unchecked_steps(r) ==
    \/ update_job_user(r)
    \/ update_job_find(r)
    \/ update_job_write(r)
    \/ update_job_read_back(r)

\* the steps of delete_job after its call
delete_job_steps(r) ==
    \/ delete_job_user(r)
    \/ delete_job_delete(r)

\* a request is served in the first slot that is free
Free(r) == pc[r] = "idle" /\ \A q \in Reqs : q < r => pc[q] # "idle"

\* bodies of POST /jobs for first stops with and without a time, and bodies
\* of PATCH /jobs/{id} that set a time, with and without the flag
SpecCreates == CapCreateInputs({TRUE}, {None, Day1})

SpecUpdates ==
    { [x \in {"appointment_time"} |-> Day1],
      [x \in {"is_first_stop", "appointment_time"} |->
          IF x = "is_first_stop" THEN TRUE ELSE Day1] }

\* the job_id of DELETE /jobs/{id}: the first job
SpecDeletes == {1}

\* creations, changes of the time and deletions, two requests at once;
\* appointment times are submitted in UTC
Next ==
    \/ \E r \in Reqs : get_current_user(r)
    \/ /\ nextId + Creating <= MaxJobs
       /\ \E r \in Reqs, in \in SpecCreates : Free(r) /\ create_job(r, AsTech, in)
    \/ \E r \in Reqs : create_job_steps(r)
    \/ \E r \in Reqs, j \in DOMAIN jobs, upd \in SpecUpdates :
           Free(r) /\ update_job(r, AsTech, j, upd)
    \/ \E r \in Reqs : update_job_unchecked_steps(r)
    \/ \E r \in Reqs, j \in DOMAIN jobs \cap SpecDeletes :
           Free(r) /\ delete_job(r, AsAdmin, j)
    \/ \E r \in Reqs : delete_job_steps(r)

Spec == Init /\ [][Next]_vars

\* two requests served at once that add first stops to one day
NextRace ==
    \/ \E r \in Reqs : get_current_user(r)
    \/ /\ nextId + Creating <= MaxRaceJobs
       /\ \E r \in Reqs, in \in RaceCreates :
             Free(r) /\ create_job(r, AsTech, in)
    \/ \E r \in Reqs : create_job_steps(r)
    \/ \E r \in Reqs, j \in DOMAIN jobs, upd \in RaceUpdates :
           Free(r) /\ update_job(r, AsTech, j, upd)
    \/ \E r \in Reqs : update_job_steps(r)

SpecRace == Init /\ [][NextRace]_vars

\* the steps of get_daily_parts after its call
get_daily_parts_steps(r) ==
    \/ get_daily_parts_user(r)
    \/ get_daily_parts_find_jobs(r)
    \/ get_daily_parts_find_distributors(r)

\* the request that writes and the request that reports
Writer == 1

Reporter == 2

\* the aggregation while jobs are created: one client creates, another asks
\* for the report
NextParts ==
    \/ \E r \in Reqs : get_current_user(r)
    \/ /\ nextId + Creating <= MaxPartsJobs
       /\ \E in \in PartsCreates : create_job(Writer, AsTech, in)
    \/ create_job_unchecked_steps(Writer)
    \/ \E d \in PartsDates : get_daily_parts(Reporter, AsTech, d)
    \/ get_daily_parts_steps(Reporter)

SpecParts == Init /\ [][NextParts]_vars

\* a store after one create_job more than get_daily_parts reads: the jobs
\* carry a part, the last one has its appointment on day 1 and the others
\* have none
SeededParts ==
    [j \in 1 .. JobListLimit + 1 |->
       NewJob([is_first_stop |-> FALSE,
               appointment_time |-> IF j <= JobListLimit THEN None ELSE Day1,
               part_number |-> Some("WS-100"), distributor |-> None,
               status |-> "pending", assigned_to |-> None,
               assigned_to_name |-> None], None)]

InitLimit ==
    /\ InitUsers
    /\ jobs = SeededParts
    /\ nextId = JobListLimit + 2
    /\ katyshop_jobs = [k \in {} |-> 0]

\* the report on that store, two requests at once
NextLimit ==
    \/ \E r \in Reqs : get_current_user(r)
    \/ \E r \in Reqs, req \in {AsTech, Anonymous}, d \in PartsDates :
           Free(r) /\ get_daily_parts(r, req, d)
    \/ \E r \in Reqs : get_daily_parts_steps(r)

SpecLimit == InitLimit /\ [][NextLimit]_vars

\* the aggregation while jobs are created and handed to distributors
NextGroups ==
    \/ \E r \in Reqs : get_current_user(r)
    \/ /\ nextId + Creating <= MaxGroupJobs
       /\ \E in \in GroupCreates : create_job(Writer, AsTech, in)
    \/ create_job_unchecked_steps(Writer)
    \/ \E j \in DOMAIN jobs, upd \in PartsUpdates :
           update_job(Writer, AsTech, j, upd)
    \/ update_job_unchecked_steps(Writer)
    \/ \E d \in GroupDates : get_daily_parts(Reporter, AsTech, d)
    \/ get_daily_parts_steps(Reporter)

SpecGroups == Init /\ [][NextGroups]_vars

\* the steps of get_first_stop_count after its call
get_first_stop_count_steps(r) ==
    \/ get_first_stop_count_user(r)
    \/ get_first_stop_count_count(r)

\* bodies of POST /jobs with and without the flag, on two days
CountCreates ==
    CapCreateInputs(BOOLEAN, {Day1})
        \cup CapCreateInputs({TRUE}, {Some([day |-> 2, hour |-> 22, off |-> 0])})

\* the count endpoint between creations and deletions, two requests at once
NextCount ==
    \/ \E r \in Reqs : get_current_user(r)
    \/ /\ nextId + Creating <= MaxCountJobs
       /\ \E r \in Reqs, in \in CountCreates :
             Free(r) /\ create_job(r, AsTech, in)
    \/ \E r \in Reqs : create_job_steps(r)
    \/ \E r \in Reqs, j \in DOMAIN jobs \cap SpecDeletes :
           Free(r) /\ delete_job(r, AsAdmin, j)
    \/ \E r \in Reqs : delete_job_steps(r)
    \/ \E r \in Reqs, req \in {AsTech, Anonymous}, d \in CountDates :
           Free(r) /\ get_first_stop_count(r, req, d)
    \/ \E r \in Reqs : get_first_stop_count_steps(r)

SpecCount == Init /\ [][NextCount]_vars

\* three first stops at 22:00 UTC of day d, written to the store directly
SeededFirstStops(d) ==
    [j \in 1 .. MaxFirstStops |->
       NewJob([is_first_stop |-> TRUE,
               appointment_time |-> Some([day |-> d, hour |-> 22, off |-> 0]),
               part_number |-> None, distributor |-> None,
               status |-> "pending", assigned_to |-> None,
               assigned_to_name |-> None], None)]

\* a store in which day 1, or day 2, is full
InitTZ ==
    /\ InitUsers
    /\ \E d \in {1, 2} : jobs = SeededFirstStops(d)
    /\ nextId = MaxFirstStops + 1
    /\ katyshop_jobs = [k \in {} |-> 0]

\* 22:00 on day 1 at UTC-5, which is 03:00 UTC on day 2
Day1West == Some([day |-> 1, hour |-> 22, off |-> 0 - 5])

TZCreates == CapCreateInputs(BOOLEAN, {Day1West})

TZUpdates ==
    { [x \in {"is_first_stop"} |-> TRUE],
      [x \in {"is_first_stop", "appointment_time"} |->
          IF x = "is_first_stop" THEN TRUE ELSE Day1West] }

\* creations and flag changes on a full day, two requests at once; the
\* appointment times carry a UTC offset
NextTZ ==
    \/ \E r \in Reqs : get_current_user(r)
    \/ /\ nextId + Creating <= MaxTZJobs
       /\ \E r \in Reqs, in \in TZCreates : Free(r) /\ create_job(r, AsTech, in)
    \/ \E r \in Reqs : create_job_steps(r)
    \/ \E r \in Reqs, j \in DOMAIN jobs, upd \in TZUpdates :
           Free(r) /\ update_job(r, AsTech, j, upd)
    \/ \E r \in Reqs : update_job_steps(r)

SpecTZ == InitTZ /\ [][NextTZ]_vars

\* the logins that have stored a session or are being served
Logins ==
    Cardinality({ i \in 1 .. Len(sessions) :
                    sessions[i].session_token
                      \in { reply.session_token : reply \in ProviderReplies } })
      + Cardinality({ r \in Reqs :
                        loc[r].op = "create_session" /\ pc[r] # "idle" })

\* the steps of create_session after the answer of the identity provider
create_session_steps(r) ==
    \/ create_session_find_email(r)
    \/ create_session_insert_user(r)
    \/ create_session_insert_session(r)
    \/ create_session_read_user(r)

\* the steps of register_push_token after its call
register_push_token_steps(r) ==
    \/ register_push_token_user(r)
    \/ register_push_token_update(r)

\* the request of a client that creates jobs and the request of one that
\* does not
Creator == 1

Other == 2

\* the answer of the identity provider for someone no user document knows
NewcomerReplies == { reply \in ProviderReplies : reply.email = "new@glass" }

\* job creations while the technician registers push tokens, a newcomer logs
\* in and the push tasks run
NextNotify ==
    \/ \E r \in Reqs : get_current_user(r)
    \/ /\ nextId + Creating <= MaxNotifyJobs
       /\ \E in \in NotifyCreates : create_job(Creator, AsTech, in)
    \/ create_job_unchecked_steps(Creator)
    \/ \E req \in {AsTech, AsAdmin}, token \in PushTokenInputs :
           register_push_token(Other, req, token)
    \/ register_push_token_steps(Other)
    \/ Logins < MaxLogins /\ create_session(Other)
    \/ \E reply \in NewcomerReplies : create_session_client_get(Other, reply)
    \/ create_session_steps(Other)
    \/ \E t \in pushq, delivered \in BOOLEAN :
           send_push_notifications(t, delivered)

SpecNotify == Init /\ [][NextNotify]_vars

\* bodies of POST /jobs: first stops with and without a time, and a job with
\* an assignee
StoreCreates ==
    SpecCreates
      \cup { [in EXCEPT !.assigned_to = Some("u_admin")] :
                in \in CapCreateInputs({FALSE}, {None}) }

\* creations on a store whose insert_many may fail, two requests at once
NextStore ==
    \/ \E r \in Reqs : get_current_user(r)
    \/ /\ nextId + Creating <= MaxStoreJobs
       /\ \E r \in Reqs, req \in {AsTech, Anonymous}, in \in StoreCreates :
             Free(r) /\ create_job(r, req, in)
    \/ \E r \in Reqs : create_job_user(r)
    \/ \E r \in Reqs : create_job_assigned(r)
    \/ \E r \in Reqs : create_job_count(r)
    \/ \E r \in Reqs : create_job_insert(r)
    \/ \E r \in Reqs : create_job_find_users(r)
    \/ \E r \in Reqs, stored \in BOOLEAN : create_job_notify(r, stored)

SpecStore == Init /\ [][NextStore]_vars

\* the users PATCH /users/{user_id}/role names
RoleTargets == {"u_admin", "u_tech"}

\* creations and deletions by admins, technicians and strangers, two
\* requests at once, while one of them changes roles
NextDelete ==
    \/ \E r \in Reqs : get_current_user(r)
    \/ \E req \in {AsAdmin, AsTech}, user_id \in RoleTargets, role \in Roles :
           update_user_role(Other, req, user_id, role)
    \/ update_user_role_user(Other)
    \/ update_user_role_update(Other)
    \/ /\ nextId + Creating <= MaxDeleteJobs
       /\ \E r \in Reqs, in \in NotifyCreates :
             Free(r) /\ create_job(r, AsTech, in)
    \/ \E r \in Reqs : create_job_unchecked_steps(r)
    \/ \E r \in Reqs, req \in DeleteRequests, j \in DOMAIN jobs \cup {nextId} :
           Free(r) /\ delete_job(r, req, j)
    \/ \E r \in Reqs : delete_job_steps(r)

SpecDelete == Init /\ [][NextDelete]_vars

\* the answers of the identity provider but the one for the technician
AuthReplies == { reply \in ProviderReplies : reply.email # "tech@glass" }

\* the request of a client that asks who it is
Client == 1

\* logins and session checks while the days pass: one client logs in,
\* another asks who it is
NextAuth ==
    \/ now < MaxNow /\ time_passes
    \/ Logins < MaxLogins /\ create_session(Other)
    \/ \E reply \in AuthReplies : create_session_client_get(Other, reply)
    \/ create_session_steps(Other)
    \/ \E req \in AuthRequests : get_me(Client, req)
    \/ get_current_user(Client)
    \/ get_me_user(Client)

SpecAuth == Init /\ [][NextAuth]_vars

\* session checks and logouts, two requests at once
NextLogout ==
    \/ \E r \in Reqs : get_current_user(r)
    \/ \E r \in Reqs, req \in LogoutRequests : Free(r) /\ get_me(r, req)
    \/ \E r \in Reqs : get_me_user(r)
    \/ \E r \in Reqs, req \in LogoutRequests : Free(r) /\ logout(r, req)
    \/ \E r \in Reqs : logout_delete_session(r)

SpecLogout == Init /\ [][NextLogout]_vars

\* job requests with and without a valid session while the days pass: the
\* technician creates jobs, another client sends requests of every kind
NextGuard ==
    \/ \E r \in Reqs : get_current_user(r)
    \/ now < MaxNow /\ time_passes
    \/ /\ nextId + Creating <= MaxGuardJobs
       /\ \/ \E in \in GuardCreates : create_job(Creator, AsTech, in)
          \/ \E req \in GuardRequests, in \in GuardCreates :
                 create_job(Other, req, in)
    \/ \E r \in Reqs : create_job_unchecked_steps(r)
    \/ \E req \in GuardRequests, j \in DOMAIN jobs, upd \in GuardUpdates :
           update_job(Other, req, j, upd)
    \/ update_job_unchecked_steps(Other)
    \/ \E req \in GuardRequests, j \in DOMAIN jobs : delete_job(Other, req, j)
    \/ delete_job_steps(Other)

SpecGuard == Init /\ [][NextGuard]_vars

\* the steps of an update_job that names an assignee and runs no capacity
\* check
update_job_assigning_steps(r) ==
    \/ update_job_user(r)
    \/ update_job_find(r)
    \/ update_job_assigned(r)
    \/ update_job_write(r)
    \/ update_job_read_back(r)

\* the job PATCH /jobs/{id} names
FieldIds == {1}

\* updates of single fields of the first job while jobs are created, two
\* requests at once
NextFields ==
    \/ \E r \in Reqs : get_current_user(r)
    \/ /\ nextId + Creating <= MaxFieldJobs
       /\ \E r \in Reqs, in \in FieldCreates :
             Free(r) /\ create_job(r, AsTech, in)
    \/ \E r \in Reqs : create_job_unchecked_steps(r)
    \/ \E r \in Reqs, j \in DOMAIN jobs \cap FieldIds, upd \in FieldUpdates :
           Free(r) /\ update_job(r, AsTech, j, upd)
    \/ \E r \in Reqs : update_job_assigning_steps(r)

SpecFields == Init /\ [][NextFields]_vars

\* two jobs of the Katyshop queue, written to the store directly as
\* backend_test.py writes its user and session: create_katyshop_job stores
\* none
SeededKatyshopJobs ==
    [k \in {1, 2} |->
       [status |-> "scheduled",
        created_by |-> IF k = 1 THEN "u_admin" ELSE "u_tech"]]

InitKaty == InitStore /\ katyshop_jobs = SeededKatyshopJobs

\* the job ids of the Katyshop requests: a stored one and one that is not
KatyIds == {1, 3}

\* the update_katyshop_job requests that may yet store a notification
Completing ==
    Cardinality({ r \in Reqs :
                    /\ loc[r].op = "update_katyshop_job"
                    /\ pc[r] \in {"find_session", "find_user", "find",
                                  "update", "notify"} })

\* the steps of update_katyshop_job after its call; insert_one may raise
update_katyshop_job_steps(r) ==
    \/ update_katyshop_job_user(r)
    \/ update_katyshop_job_find(r)
    \/ update_katyshop_job_update(r)
    \/ \E stored \in BOOLEAN : update_katyshop_job_notify(r, stored)
    \/ update_katyshop_job_find_creator(r)
    \/ update_katyshop_job_read_back(r)

\* status changes of the Katyshop queue, two requests at once
NextKaty ==
    \/ \E r \in Reqs : get_current_user(r)
    \/ \E r \in Reqs, req \in {AsTech, Anonymous} :
           Free(r) /\ create_katyshop_job(r, req)
    \/ \E r \in Reqs : create_katyshop_job_user(r)
    \/ /\ Cardinality(notifications) + Completing < MaxKatyNotes
       /\ \E r \in Reqs, req \in {AsTech, Anonymous}, k \in KatyIds,
             upd \in KatyUpdates :
             Free(r) /\ update_katyshop_job(r, req, k, upd)
    \/ \E r \in Reqs : update_katyshop_job_steps(r)
    \/ \E r \in Reqs, req \in {AsTech, Anonymous}, k \in KatyIds :
           Free(r) /\ delete_katyshop_job(r, req, k)
    \/ \E r \in Reqs : delete_katyshop_job_user(r)
    \/ \E r \in Reqs : delete_katyshop_job_delete(r)

SpecKaty == InitKaty /\ [][NextKaty]_vars

\* the requests of handler op that have yet to insert
Pending(op) ==
    Cardinality({ r \in Reqs : loc[r].op = op /\ pc[r] # "idle" })

\* two requests served at once that create and delete distributors, one of
\* them service advisors too
NextNames ==
    \/ \E r \in Reqs : get_current_user(r)
    \/ /\ drawn.distributors + Pending("create_distributor") < MaxDistributors
       /\ \E r \in Reqs, req \in {AsTech, Anonymous}, name \in Names :
             Free(r) /\ create_distributor(r, req, name)
    \/ \E r \in Reqs : create_distributor_user(r)
    \/ \E r \in Reqs : create_distributor_find(r)
    \/ \E r \in Reqs : create_distributor_insert(r)
    \/ /\ drawn.service_advisors < MaxDistributors
       /\ \E name \in Names : create_service_advisor(Other, AsTech, name)
    \/ create_service_advisor_user(Other)
    \/ create_service_advisor_find(Other)
    \/ create_service_advisor_insert(Other)
    \/ \E r \in Reqs, d \in DeleteIds :
           Free(r) /\ delete_distributor(r, AsTech, d)
    \/ \E r \in Reqs : delete_distributor_user(r)
    \/ \E r \in Reqs : delete_distributor_delete(r)
    \/ \E r \in Reqs : delete_distributor_clear_jobs(r)
    \/ \E a \in { AdvisorIds[i] : i \in 1 .. drawn.service_advisors } :
           delete_service_advisor(Other, AsTech, a)
    \/ delete_service_advisor_user(Other)
    \/ delete_service_advisor_delete(Other)

SpecNames == Init /\ [][NextNames]_vars

\* the notification_ids a client may put in the path: those of the stored
\* notifications and one that no notification has
ReadIds ==
    { notification_id(n) : n \in notifications }
        \cup { [user_id |-> "u_tech", job_id |-> 0, type |-> "new_job"] }

\* job creations and the notification requests of the technician, of the
\* admin and of a client without a session, two requests at once
NextRead ==
    \/ \E r \in Reqs : get_current_user(r)
    \/ /\ nextId + Creating <= MaxReadJobs
       /\ \E r \in Reqs, in \in NotifyCreates :
             Free(r) /\ create_job(r, AsTech, in)
    \/ \E r \in Reqs : create_job_unchecked_steps(r)
    \/ \E r \in Reqs, req \in {AsTech, AsAdmin, Anonymous}, nid \in ReadIds :
           Free(r) /\ mark_notification_read(r, req, nid)
    \/ \E r \in Reqs : mark_notification_read_user(r)
    \/ \E r \in Reqs : mark_notification_read_update(r)
    \/ \E r \in Reqs, req \in {AsTech, AsAdmin, Anonymous} :
           Free(r) /\ mark_all_notifications_read(r, req)
    \/ \E r \in Reqs : mark_all_notifications_read_user(r)
    \/ \E r \in Reqs : mark_all_notifications_read_update(r)
    \/ \E r \in Reqs, req \in {AsTech, AsAdmin, Anonymous} :
           Free(r) /\ get_unread_count(r, req)
    \/ \E r \in Reqs : get_unread_count_user(r)
    \/ \E r \in Reqs : get_unread_count_count(r)

SpecRead == Init /\ [][NextRead]_vars

\* the requests that may yet insert a user
Joining ==
    Cardinality({ r \in Reqs :
                    /\ loc[r].op \in {"create_session", "create_technician"}
                    /\ pc[r] # "idle" })

\* there is a user id left to draw
IdsLeft == Cardinality(DOMAIN users) + Joining < Cardinality(UserIds)

\* roles changed by admins, technicians and strangers, two requests at once,
\* while a newcomer logs in and technicians are created
NextRoles ==
    \/ \E r \in Reqs : get_current_user(r)
    \/ \E r \in Reqs :
           Free(r) /\ IdsLeft /\ Logins < MaxLogins /\ create_session(r)
    \/ \E r \in Reqs, reply \in NewcomerReplies :
           create_session_client_get(r, reply)
    \/ \E r \in Reqs : create_session_steps(r)
    \/ /\ IdsLeft
       /\ \E req \in {AsAdmin, AsTech, Anonymous}, tech_data \in TechInputs :
             create_technician(Other, req, tech_data)
    \/ create_technician_user(Other)
    \/ create_technician_find_email(Other)
    \/ create_technician_insert_user(Other)
    \/ \E r \in Reqs, req \in RoleRequests, user_id \in RoleTargets,
          role \in Roles : Free(r) /\ update_user_role(r, req, user_id, role)
    \/ \E r \in Reqs : update_user_role_user(r)
    \/ \E r \in Reqs : update_user_role_update(r)

SpecRoles == Init /\ [][NextRoles]_vars

\* distributors are created and assigned to jobs by one request while
\* another deletes distributors
NextDist ==
    \/ \E r \in Reqs : get_current_user(r)
    \/ /\ drawn.distributors < MaxDistributors
       /\ \E name \in Names : create_distributor(Writer, AsTech, name)
    \/ create_distributor_user(Writer)
    \/ create_distributor_find(Writer)
    \/ create_distributor_insert(Writer)
    \/ /\ nextId <= MaxDistJobs
       /\ \E in \in FieldCreates : create_job(Writer, AsTech, in)
    \/ create_job_unchecked_steps(Writer)
    \/ \E j \in DOMAIN jobs \cap FieldIds, upd \in DistUpdates :
           update_job(Writer, AsTech, j, upd)
    \/ update_job_unchecked_steps(Writer)
    \/ \E req \in {AsTech, Anonymous}, d \in DeleteIds :
           delete_distributor(Other, req, d)
    \/ delete_distributor_user(Other)
    \/ delete_distributor_delete(Other)
    \/ delete_distributor_clear_jobs(Other)

SpecDist == Init /\ [][NextDist]_vars

(* ------------------------------ day counts ---------------------------- *)

\* the UTC calendar day of a stored instant
UTCDay(t) == t \div HoursPerDay

\* the stored first-stop jobs whose appointment falls on UTC day d
FirstStopsOn(d) ==
    { j \in DOMAIN jobs : /\ jobs[j].is_first_stop
                          /\ jobs[j].appointment_time # None
                          /\ UTCDay(jobs[j].appointment_time[1]) = d }

Days == 0 .. 4

SomeDayFull == \E d \in Days : Cardinality(FirstStopsOn(d)) >= MaxFirstStops

\* request r, which runs handler op, takes its step from the call named l
Step(r, op, l) == Awaits(r, op, l) /\ <<pc[r], loc[r]>> # <<pc'[r], loc'[r]>>

\* request r is answered a in this step
Answered(r, a) == pc[r] # "idle" /\ pc'[r] = "idle" /\ resp' = a

(* --------------------- claims on the capacity rule -------------------- *)

\* C1: in every state reached by create_job, update_job and delete_job
\* requests, on every UTC calendar day at most 3 stored jobs are first stops
\* with an appointment on that day
C1_CapInvariant ==
    \A d \in Days : Cardinality(FirstStopsOn(d)) <= MaxFirstStops

\* the update of request r names a time for a job that it found to be a
\* first stop
MovesFirstStop(r) ==
    /\ loc[r].op = "update_job"
    /\ "appointment_time" \in DOMAIN loc[r].update_data
    /\ "current_job" \in DOMAIN loc[r]
    /\ loc[r].current_job.is_first_stop

\* C8: an update_job that carries an appointment_time for a job whose stored
\* is_first_stop is true runs no capacity check: from the read of the job it
\* goes to the write, the write stores the new time whatever the target day
\* holds, and the request is answered 200
C8_NoRecheckOnTimeChange ==
    [][\A r \in Reqs :
          /\ ( /\ Step(r, "update_job", "find")
               /\ loc[r].job_id \in DOMAIN jobs
               /\ jobs[loc[r].job_id].is_first_stop
               /\ "appointment_time" \in DOMAIN loc[r].update_data )
             => pc'[r] = "write" /\ MovesFirstStop(r)'
          /\ (Step(r, "update_job", "write") /\ MovesFirstStop(r)
                 /\ loc[r].job_id \in DOMAIN jobs)
             => /\ pc'[r] = "read_back"
                /\ jobs'[loc[r].job_id].appointment_time =
                      Stored("appointment_time",
                             loc[r].update_data["appointment_time"])
                /\ jobs'[loc[r].job_id].is_first_stop
          /\ (Step(r, "update_job", "read_back") /\ MovesFirstStop(r)
                 /\ loc[r].job_id \in DOMAIN jobs)
             => Answered(r, [op |-> "update_job", code |-> 200,
                             job |-> jobs[loc[r].job_id]])]_vars

\* an update that ran no check has written a fourth first stop onto a day
C8_Witness ==
    \E r \in Reqs :
        /\ Awaits(r, "update_job", "read_back")
        /\ MovesFirstStop(r)
        /\ loc[r].current_job.appointment_time = None
        /\ loc[r].job_id \in DOMAIN jobs
        /\ Cardinality(FirstStopsOn(1)) > MaxFirstStops
        /\ \A q \in Reqs \ {r} : pc[q] = "idle"

\* the creation of request r is one of a first stop without a time
Timeless(r) ==
    /\ loc[r].op = "create_job"
    /\ loc[r].in.is_first_stop
    /\ loc[r].in.appointment_time = None

\* C9: a create_job with is_first_stop = true and no appointment_time runs no
\* capacity check: it goes from the session check to the insert, stores the
\* job with is_first_stop = true whatever first-stop jobs exist, and is
\* answered 200
C9_CreateWithoutTime ==
    [][\A r \in Reqs :
          /\ (Step(r, "create_job", "find_user") /\ Timeless(r))
             => pc'[r] = "insert"
          /\ (Step(r, "create_job", "insert") /\ Timeless(r))
             => /\ pc'[r] = "find_users"
                /\ DOMAIN jobs' = DOMAIN jobs \cup {nextId}
                /\ jobs'[nextId].is_first_stop
                /\ jobs'[nextId].appointment_time = None
          /\ (Step(r, "create_job", "find_users") /\ Timeless(r))
             => pc'[r] = "notify"
          /\ (Step(r, "create_job", "notify") /\ Timeless(r))
             => Answered(r, Reply("create_job", 200))]_vars

\* a first stop without a time has just been stored while a day is full
C9_Witness ==
    \E r \in Reqs :
        /\ Awaits(r, "create_job", "find_users")
        /\ Timeless(r)
        /\ SomeDayFull
        /\ jobs[loc[r].job_id].is_first_stop
        /\ jobs[loc[r].job_id].appointment_time = None

\* C6: the count returned by get_first_stop_count is the number of stored
\* first-stop jobs whose appointment lies in [day_start, day_end) of the
\* date asked for, max is 3 and can_add is true exactly when count < 3
C6_CountMatchesStore ==
    [][\A r \in Reqs :
          Step(r, "get_first_stop_count", "count") =>
             LET day_start == loc[r].date.day * HoursPerDay - loc[r].date.off
                 inDay == { j \in DOMAIN jobs :
                              /\ jobs[j].is_first_stop
                              /\ jobs[j].appointment_time # None
                              /\ jobs[j].appointment_time[1] - day_start
                                   \in 0 .. (HoursPerDay - 1) }
             IN Answered(r, [op |-> "get_first_stop_count", code |-> 200,
                             date |-> loc[r].date,
                             count |-> Cardinality(inDay), max |-> 3,
                             can_add |-> Cardinality(inDay) < 3])]_vars

\* a count of 3 was returned while other stored jobs were left out of it
C6_Witness ==
    /\ resp.op = "get_first_stop_count"
    /\ resp.code = 200
    /\ resp.count = 3
    /\ ~resp.can_add
    /\ \A r \in Reqs : pc[r] = "idle"
    /\ Cardinality(DOMAIN jobs) > 3
    /\ \E j \in DOMAIN jobs :
          ~jobs[j].is_first_stop /\ jobs[j].appointment_time # None

(* ------------------ claims on times with a UTC offset ----------------- *)

\* the first-stop jobs other than j stored on the UTC day of instant t
OthersOnDayOf(t, j) == Cardinality(FirstStopsOn(UTCDay(t)) \ {j})

\* the instant the capacity check of request r is about
CheckedInstant(r) ==
    IF loc[r].op = "create_job"
    THEN ToUTC(loc[r].in.appointment_time[1])
    ELSE ToUTC(effective_apt(loc[r].current_job, loc[r].update_data)[1])

\* C2: a create_job with is_first_stop = true and an appointment_time on a
\* UTC day that holds 3 or more first stops when the handler counts fails
\* with 400 and leaves the jobs and the notifications as they were
C2_FullDayRejectsCreate ==
    [][\A r \in Reqs :
          ( /\ Step(r, "create_job", "count")
            /\ OthersOnDayOf(CheckedInstant(r), 0) >= MaxFirstStops )
          => /\ Answered(r, Reply("create_job", 400))
             /\ jobs' = jobs
             /\ notifications' = notifications]_vars

\* C3: an update_job setting is_first_stop = true on a job whose stored flag
\* is false is rejected with 400, the job unchanged, when 3 or more other
\* jobs are first stops on the UTC day of the effective appointment time,
\* and goes on to its write when fewer are
C3_FlipRespectsCap ==
    [][\A r \in Reqs :
          Step(r, "update_job", "count")
          => IF OthersOnDayOf(CheckedInstant(r), loc[r].job_id)
                  >= MaxFirstStops
             THEN Answered(r, Reply("update_job", 400)) /\ jobs' = jobs
             ELSE pc'[r] = "write"]_vars

\* C4: a create_job with is_first_stop = true whose appointment UTC day holds
\* fewer than 3 first stops when the handler counts goes on to its insert,
\* whatever other days hold
C4_CapIsPerDay ==
    [][\A r \in Reqs :
          ( /\ Step(r, "create_job", "count")
            /\ OthersOnDayOf(CheckedInstant(r), 0) < MaxFirstStops )
          => pc'[r] = "insert"]_vars

\* C7: the window counted by the capacity check of create_job and update_job
\* is the UTC calendar day of the appointment instant, from UTC midnight to
\* UTC midnight + 24h, whatever offset the time was submitted with
C7_WindowIsUTCDay ==
    \A r \in Reqs :
        (pc[r] = "count" /\ loc[r].op \in {"create_job", "update_job"})
        => /\ loc[r].window.lo = UTCDay(CheckedInstant(r)) * HoursPerDay
           /\ loc[r].window.hi = loc[r].window.lo + HoursPerDay

(* --------------------- claims on overlapping requests ----------------- *)

\* the requests that passed the count and have their write ahead of them
Passed(r) ==
    \/ Awaits(r, "create_job", "insert") /\ loc[r].in.is_first_stop
    \/ /\ Awaits(r, "update_job", "write")
       /\ "window" \in DOMAIN loc[r]
       /\ ~jobs[loc[r].job_id].is_first_stop

\* C5: nothing holds back the write of a request that has passed the count
\* check: when two requests have passed it for a day with room for one, both
\* writes go through and the day ends up with more than 3 first stops
C5_WriteIgnoresLaterCount ==
    [][\A r \in Reqs :
          (Passed(r) /\ Step(r, loc[r].op, pc[r]))
          => Cardinality(FirstStopsOn(1)') = Cardinality(FirstStopsOn(1)) + 1]_vars

\* both requests are done and day 1 holds 4 first stops
C5_Witness ==
    /\ \A r \in Reqs : pc[r] = "idle"
    /\ Cardinality(FirstStopsOn(1)) > MaxFirstStops

(* ---------------------- claims on the parts report -------------------- *)

Range(q) == { q[i] : i \in 1 .. Len(q) }

\* the jobs a response of get_daily_parts returns, over all its buckets
Returned(a) ==
    Range(a.unassigned)
      \cup UNION { Range(a.by_distributor[i].parts) :
                     i \in 1 .. Len(a.by_distributor) }

\* the jobs of js that are not cancelled and whose appointment date is date
OnDay(js, date) ==
    { j \in DOMAIN js :
        /\ js[j].status # "cancelled"
        /\ js[j].appointment_time # None
        /\ date.form # "nodate"
        /\ UTCDay(js[j].appointment_time[1]) = date.day }

\* those of them that carry a non-empty part number
PartsOnDay(js, date) ==
    { j \in OnDay(js, date) : js[j].part_number \notin {None, Some("")} }

\* request r answers with its report
Reports(r) == Step(r, "get_daily_parts", "find_distributors")

\* the jobs request r has read are the jobs the store holds
ReadIsCurrent(r) ==
    \A j \in DOMAIN jobs :
        (jobs[j].status # "cancelled" \/ j \in DOMAIN loc[r].all_jobs)
        => /\ (jobs[j].part_number # None => j \in DOMAIN loc[r].all_jobs)
           /\ (j \in DOMAIN loc[r].all_jobs => loc[r].all_jobs[j] = jobs[j])

\* C10: for any stored jobs and any date D, the jobs returned by
\* get_daily_parts, in the distributor groups and in unassigned, are exactly
\* the stored jobs that are not cancelled, carry a non-empty part_number and
\* have D as their appointment date
C10_DailyPartsSelection ==
    [][\A r \in Reqs :
          Reports(r)
          => /\ resp'.code = 200
             /\ Returned(resp') = PartsOnDay(jobs, loc[r].date)]_vars

\* the places of a response of get_daily_parts: <<i, k>> is the k-th entry of
\* the i-th distributor group, <<0, k>> the k-th entry of unassigned
Slots(a) ==
    { <<0, k>> : k \in 1 .. Len(a.unassigned) }
      \cup UNION { { <<i, k>> : k \in 1 .. Len(a.by_distributor[i].parts) } :
                     i \in 1 .. Len(a.by_distributor) }

\* the job a place holds
At(a, s) ==
    IF s[1] = 0 THEN a.unassigned[s[2]] ELSE a.by_distributor[s[1]].parts[s[2]]

\* C11: the output of get_daily_parts is a partition: every job of the day
\* with a part number that the handler read sits at exactly one place of
\* exactly one bucket (a distributor group or unassigned), so the sizes of
\* the groups plus the size of unassigned add up to total_parts
C11_BucketsPartition ==
    [][\A r \in Reqs :
          Reports(r)
          => /\ \A j \in PartsOnDay(loc[r].all_jobs, loc[r].date) :
                   Cardinality({ s \in Slots(resp') : At(resp', s) = j }) = 1
             /\ Cardinality(Slots(resp')) = resp'.total_parts]_vars

\* a report with two distributor groups and a job in unassigned
C11_Witness ==
    /\ resp.op = "get_daily_parts"
    /\ resp.code = 200
    /\ Len(resp.by_distributor) = 2
    /\ resp.unassigned # <<>>
    /\ resp.total_parts = 3

\* the distributor groups of a response that hold job j
GroupsOf(a, j) ==
    { i \in 1 .. Len(a.by_distributor) : j \in Range(a.by_distributor[i].parts) }

\* C12: a job created through create_job with a part number, a distributor d
\* and an appointment on date D is returned by get_daily_parts for D in the
\* group keyed by d and not in unassigned (every body of PartsCreates names
\* distributor dist_1)
C12_CreatedJobIsGrouped ==
    [][\A r \in Reqs :
          Reports(r)
          => \A j \in Returned(resp') :
                /\ j \notin Range(resp'.unassigned)
                /\ \E i \in GroupsOf(resp', j) :
                      resp'.by_distributor[i].distributor_id = "dist_1"]_vars

\* C13: total_jobs is the number of stored jobs of the day that are not
\* cancelled, the jobs without a part number included; total_parts is the
\* number of those that carry a non-empty part number
C13_TotalJobsIsDayCount ==
    [][\A r \in Reqs :
          (Reports(r) /\ ReadIsCurrent(r))
          => /\ resp'.total_jobs = Cardinality(OnDay(jobs, loc[r].date))
             /\ resp'.total_parts
                  = Cardinality(PartsOnDay(jobs, loc[r].date))]_vars

\* the distributor keys of the jobs a response returns, as request r read
\* them
KeysOf(r, a) ==
    { loc[r].all_jobs[j].distributor[1] :
        j \in { k \in Returned(a) : Truthy(loc[r].all_jobs[k].distributor) } }

\* C14: distributor_count is the number of distinct distributor keys among
\* the returned jobs, plus 1 exactly when unassigned is not empty; a job
\* without a distributor is in unassigned and in no group
C14_DistributorCount ==
    [][\A r \in Reqs :
          Reports(r)
          => /\ resp'.distributor_count =
                   Cardinality(KeysOf(r, resp'))
                     + (IF resp'.unassigned # <<>> THEN 1 ELSE 0)
             /\ \A j \in Returned(resp') :
                   ~Truthy(loc[r].all_jobs[j].distributor)
                   => /\ j \in Range(resp'.unassigned)
                      /\ GroupsOf(resp', j) = {}]_vars

\* a report with one group of two jobs and a job in unassigned
C14_Witness ==
    /\ resp.op = "get_daily_parts"
    /\ resp.code = 200
    /\ resp.distributor_count = 2
    /\ Len(resp.by_distributor) = 1
    /\ Len(resp.by_distributor[1].parts) = 2
    /\ Len(resp.unassigned) = 1

\* request r takes a step of get_daily_parts
ReportStep(r) ==
    /\ <<pc[r], loc[r]>> # <<pc'[r], loc'[r]>>
    /\ "get_daily_parts" \in {loc[r].op, loc'[r].op}

\* C15: get_daily_parts reads only: whatever date it is asked for, valid or
\* not, no step of it changes the jobs, the distributors, the users, the
\* sessions or the notifications
C15_DailyPartsReadOnly ==
    [][(\E r \in Reqs : ReportStep(r)) => UNCHANGED data]_vars

\* a date that is no date was answered while jobs with a distributor and
\* notifications exist
C15_Witness ==
    /\ resp = Reply("get_daily_parts", 500)
    /\ DOMAIN jobs # {}
    /\ notifications # {}
    /\ \E j \in DOMAIN jobs : Truthy(jobs[j].distributor)

(* ----------------------- claims on notifications --------------------- *)

\* the unread record of the event of job j that is addressed to user u
Unread(u, j) ==
    [user_id |-> u, job_id |-> j, type |-> "new_job", read |-> FALSE]

\* request r, a create_job, returns success
Succeeds(r) ==
    /\ loc[r].op = "create_job"
    /\ pc[r] # "idle"
    /\ pc'[r] = "idle"
    /\ resp' = Reply("create_job", 200)

\* C16: when create_job returns success the job is stored and an unread
\* notification that carries the id of the new job is stored for every user
\* that exists at that time, the creator included; the push task, if one was
\* started, has not run yet
C16_NotifiedBeforeResponse ==
    [][\A r \in Reqs :
          Succeeds(r)
          => /\ loc[r].job_id \in DOMAIN jobs'
             /\ \A u \in DOMAIN users' :
                   Unread(u, loc[r].job_id) \in notifications'
             /\ \A a \in pushlog' : a.job_id # loc[r].job_id
             /\ \A t \in pushq' \ pushq : t.job_id = loc[r].job_id]_vars

\* C18: the push send that create_job triggers is advisory: the run of a push
\* task, delivered or failed, leaves the last response, the requests being
\* served, the jobs and the notifications as they were, takes the task off
\* the queue, and no event sees more than one send
C18_PushIsAdvisory ==
    [][(pushq \ pushq' # {} \/ pushlog' # pushlog)
       => /\ UNCHANGED <<resp, pc, loc, jobs, nextId, notifications, users>>
          /\ pushq' \subseteq pushq
          /\ pushq' # pushq
          /\ \A j \in DOMAIN jobs : Attempts(j)' <= 1]_vars

\* the sends of two events are logged, one delivered and one failed, and the
\* jobs and their notifications are stored alike
C18_Witness ==
    /\ pushq = {}
    /\ \E a, b \in pushlog : a.ok /\ ~b.ok
    /\ \A a \in pushlog :
          /\ a.job_id \in DOMAIN jobs
          /\ \A u \in {"u_admin", "u_tech"} :
                Unread(u, a.job_id) \in notifications

(* ------------------------- claims on the sessions --------------------- *)

\* token t is the token of a stored session of user u that has not expired
SessionOf(t, u) ==
    \E i \in 1 .. Len(sessions) :
        /\ sessions[i].session_token = t
        /\ sessions[i].user_id = u
        /\ sessions[i].expires_at >= now

\* the request carries a token, in the Authorization header or else in the
\* cookie, of a stored session of a stored user u that has not expired
Authenticates(req, u) ==
    LET token == IF req.bearer # None THEN req.bearer ELSE req.cookie
    IN token # None /\ u \in DOMAIN users /\ SessionOf(token[1], u)

\* request r is called without a token and answered at once
Tokenless(r, op) ==
    /\ pc[r] = "idle"
    /\ pc' = pc
    /\ loc' = loc
    /\ resp' # resp
    /\ resp'.op = op

\* C20: a request is authenticated as user u exactly when the token it
\* carries (the Bearer header, else the cookie) is the token of a stored
\* session of u whose expiry is not in the past, and u is stored; a missing,
\* an unknown and an expired token get the same 401 "Not authenticated";
\* every session expires 7 days after it was stored
C20_SessionAuthenticates ==
    [][/\ \A i \in 1 .. Len(sessions') :
             sessions'[i].expires_at = sessions'[i].created_at + SessionDays
       /\ \A r \in Reqs :
             /\ Tokenless(r, "get_me") => resp' = NotAuthenticated("get_me")
             /\ \A req \in AuthRequests :
                   (get_me(r, req) /\ resp' = resp)
                   => Truthy(session_token(req))
             /\ Step(r, "get_me", "find_session")
                => LET t == session_token(loc[r].req)[1]
                   IN IF \E u \in UserIds : SessionOf(t, u)
                      THEN /\ pc'[r] = "find_user"
                           /\ SessionOf(t, loc'[r].session_user)
                      ELSE Answered(r, NotAuthenticated("get_me"))
             /\ Step(r, "get_me", "find_user")
                => IF loc[r].session_user \in DOMAIN users
                   THEN Answered(r, [op |-> "get_me", code |-> 200,
                                     user |-> loc[r].session_user])
                   ELSE Answered(r, NotAuthenticated("get_me"))]_vars

\* the handlers that create and change jobs
JobOps == {"create_job", "update_job", "delete_job"}

\* C21: a create_job, update_job or delete_job request without a valid
\* session (no token, an unknown token, an expired session) is answered 401
\* and leaves the jobs and the notifications as they were; a step that
\* changes the jobs or the notifications is taken by a request that has been
\* authenticated
C21_JobsNeedSession ==
    [][/\ \A r \in Reqs, op \in JobOps :
             /\ Tokenless(r, op)
                => /\ resp' = NotAuthenticated(op)
                   /\ UNCHANGED <<jobs, nextId, notifications>>
             /\ ( /\ Step(r, op, "find_session")
                  /\ \A u \in UserIds : ~Authenticates(loc[r].req, u) )
                => /\ Answered(r, NotAuthenticated(op))
                   /\ UNCHANGED <<jobs, nextId, notifications>>
             /\ (pc[r] = "idle" /\ pc'[r] # "idle" /\ loc'[r].op = op)
                => /\ pc'[r] = "find_session"
                   /\ UNCHANGED <<jobs, nextId, notifications>>
       /\ (jobs' # jobs \/ notifications' # notifications)
            => \E r \in Reqs :
                  /\ pc[r] \notin {"idle", "find_session", "find_user"}
                  /\ loc[r].op \in JobOps
                  /\ <<pc[r], loc[r]>> # <<pc'[r], loc'[r]>>]_vars

\* a deletion was refused for want of a session after the seeded sessions
\* expired, and the jobs and their notifications are stored
C21_Witness ==
    /\ resp = NotAuthenticated("delete_job")
    /\ now > SessionDays
    /\ Cardinality(DOMAIN jobs) = 2
    /\ notifications # {}

\* the logout of request r for the client req returns
LogoutReturns(r, req) ==
    \/ pc[r] = "idle" /\ ~Truthy(req.cookie) /\ logout(r, req)
    \/ /\ Step(r, "logout", "delete_session")
       /\ loc[r].req = req

\* C26: once the logout of an authenticated client has returned, the token
\* the client authenticated with authenticates nobody, in the Authorization
\* header or in the cookie
C26_LogoutEndsSession ==
    [][\A r \in Reqs, req \in LogoutRequests :
         (LogoutReturns(r, req) /\ \E u \in DOMAIN users : Authenticates(req, u))
         => LET token == IF req.bearer # None THEN req.bearer ELSE req.cookie
            IN \A u \in DOMAIN users :
                  /\ ~(Authenticates([bearer |-> token, cookie |-> None], u))'
                  /\ ~(Authenticates([bearer |-> None, cookie |-> token], u))'
      ]_vars

\* request r, a create_job, returns an error
Fails(r) ==
    /\ loc[r].op = "create_job"
    /\ pc[r] # "idle"
    /\ pc'[r] = "idle"
    /\ resp'.code # 200

\* C27: a create_job that returns an error has persisted no job, also when
\* the error comes from storing the notifications after the job insert
C27_ErrorStoresNoJob ==
    [][\A r \in Reqs :
          Fails(r)
          => /\ jobs' = jobs
             /\ "job_id" \notin DOMAIN loc[r]]_vars

Submitted(f, v) ==
    IF f = "appointment_time" /\ v # None THEN Some(ToUTC(v[1])) ELSE v

\* C22: a successful update_job is a partial-field update: its write leaves
\* the job with the submitted value of every field of the request and the
\* prior value of every other field, except assigned_to_name when
\* assigned_to is supplied (updated_at is not part of the model), and changes
\* no other job; the job the response returns is the stored job and carries
\* the submitted value of every field of the request
C22_PartialUpdate ==
    [][\A r \in Reqs :
          /\ (Step(r, "update_job", "write") /\ loc[r].job_id \in DOMAIN jobs)
             => LET j == loc[r].job_id
                    upd == loc[r].update_data
                IN /\ pc'[r] = "read_back"
                   /\ DOMAIN jobs' = DOMAIN jobs
                   /\ \A k \in DOMAIN jobs \ {j} : jobs'[k] = jobs[k]
                   /\ \A f \in DOMAIN jobs[j] :
                         IF f = "assigned_to_name"
                            /\ "assigned_to" \in DOMAIN upd
                         THEN TRUE
                         ELSE IF f \in DOMAIN upd
                         THEN jobs'[j][f] = Submitted(f, upd[f])
                         ELSE jobs'[j][f] = jobs[j][f]
          /\ ( /\ loc[r].op = "update_job"
               /\ pc[r] # "idle"
               /\ pc'[r] = "idle"
               /\ resp'.code = 200 )
             => /\ pc[r] = "read_back"
                /\ jobs' = jobs
                /\ loc[r].job_id \in DOMAIN jobs
                /\ resp'.job = jobs[loc[r].job_id]
                /\ \A f \in DOMAIN loc[r].update_data :
                      resp'.job[f] = Submitted(f, loc[r].update_data[f])]_vars
(* ----------------------- claims on the Katyshop queue ----------------- *)

\* the update of request r sets the status to completed and the handler
\* read a status that is not completed
Completes(r) ==
    /\ loc[r].op = "update_katyshop_job"
    /\ "existing_job" \in DOMAIN loc[r]
    /\ loc[r].job_data.status = Some("completed")
    /\ loc[r].existing_job.status # "completed"

\* an unread notification of job k for its creator is added
CreatorNotified(r) ==
    \E n \in notifications' \ notifications :
        /\ n.user_id = loc[r].existing_job.created_by
        /\ n.job_id = loc[r].job_id
        /\ ~n.read

\* C17: when update_katyshop_job moves the status of a job from a value
\* other than completed to completed and returns success, an unread
\* notification addressed to the creator of the job has been stored by the
\* request; a notification that could not be stored does not end in a
\* successful response
C17_CompletionNotifies ==
    [][\A r \in Reqs :
          /\ (Step(r, "update_katyshop_job", "update") /\ Completes(r))
             => pc'[r] = "notify"
          /\ Step(r, "update_katyshop_job", "notify")
             => \/ CreatorNotified(r)
                \/ pc'[r] = "idle" /\ resp'.code # 200]_vars

\* C24: create_katyshop_job by an authenticated user succeeds and stores
\* exactly one Katyshop job, with status scheduled and the caller as
\* created_by
C24_KatyshopJobCreated ==
    [][\A r \in Reqs :
          ( /\ Step(r, "create_katyshop_job", "find_user")
            /\ loc[r].session_user \in DOMAIN users )
          => /\ Answered(r, Reply("create_katyshop_job", 200))
             /\ \E k \in DOMAIN katyshop_jobs' \ DOMAIN katyshop_jobs :
                   /\ DOMAIN katyshop_jobs' = DOMAIN katyshop_jobs \cup {k}
                   /\ katyshop_jobs'[k].status = "scheduled"
                   /\ katyshop_jobs'[k].created_by = loc[r].session_user]_vars

\* C25: the completion notification of the Katyshop queue comes once per
\* transition: an update_katyshop_job stores at most one notification, and
\* stores it only for the creator of a job that the request sets to
\* completed and whose stored status, when the request sets it, is not
\* already completed; an update that leaves the status alone, sets another
\* status or sends completed for a completed job stores none
C25_OncePerTransition ==
    [][/\ notifications \subseteq notifications'
       /\ Cardinality(notifications' \ notifications) <= 1
       /\ \A r \in Reqs :
             /\ Step(r, "update_katyshop_job", "find")
                => \/ pc'[r] = "idle"
                   \/ loc'[r].existing_job = katyshop_jobs[loc[r].job_id]
             /\ (Step(r, "update_katyshop_job", "update") /\ ~Completes(r))
                => pc'[r] = "read_back"
             /\ ( /\ Step(r, "update_katyshop_job", "update")
                  /\ pc'[r] = "notify"
                  /\ loc[r].job_id \in DOMAIN katyshop_jobs )
                => katyshop_jobs[loc[r].job_id].status # "completed"
             /\ (Step(r, "update_katyshop_job", "notify")
                    /\ notifications' # notifications)
                => Completes(r) /\ CreatorNotified(r) /\ pc'[r] = "find_creator"
       /\ notifications' # notifications
            => \E r \in Reqs : Step(r, "update_katyshop_job", "notify")]_vars
(* ------------------- claims on the reference entities ----------------- *)

\* C23: no two stored distributors share a name and no two stored service
\* advisors share a name, after any creations, overlapping ones included
C23_NamesUnique ==
    /\ \A d, e \in DOMAIN distributors :
          d # e => distributors[d] # distributors[e]
    /\ \A a, b \in DOMAIN service_advisors :
          a # b => service_advisors[a] # service_advisors[b]

(* --------------------- claims on the notifications -------------------- *)

MarkOps == {"mark_notification_read", "mark_all_notifications_read"}

\* C28: the read state is kept per user. The update of a
\* mark_notification_read or mark_all_notifications_read of user u turns
\* notifications of u from unread to read (all of them for mark-all), adds
\* and removes none, is answered 200, and leaves the notifications and the
\* unread count of every other user as they were, also when u names the
\* notification_id of another user; the steps of the two handlers before
\* the update, those that answer 401 included, change no notification; and
\* no step makes a read notification unread
C28_ReadStatePerUser ==
    [][/\ \A n \in notifications : n.read => n \in notifications'
       /\ \A r \in Reqs :
             /\ (\E op \in MarkOps : Step(r, op, "update"))
                => LET caller == loc[r].user.user_id
                       mine(S) == { n \in S : n.user_id = caller }
                   IN /\ (notifications' \ mine(notifications'))
                            = (notifications \ mine(notifications))
                      /\ \A v \in DOMAIN users :
                            v # caller => unread_count(v)' = unread_count(v)
                      /\ { notification_id(n) : n \in notifications' }
                            = { notification_id(n) : n \in notifications }
                      /\ \A n \in mine(notifications) :
                            \/ n \in notifications'
                            \/ /\ ~n.read
                               /\ [n EXCEPT !.read = TRUE] \in notifications'
                      /\ loc[r].op = "mark_all_notifications_read"
                            => \A n \in mine(notifications') : n.read
                      /\ Answered(r, Reply(loc[r].op, 200))
             /\ (\E op \in MarkOps, l \in {"find_session", "find_user"} :
                    Step(r, op, l))
                => notifications' = notifications]_vars

\* the technician, who has read a notification of their own, names an unread
\* notification of the admin in a mark_notification_read that is about to
\* run its update
C28_Witness ==
    \E r \in Reqs :
        /\ Awaits(r, "mark_notification_read", "update")
        /\ loc[r].user.user_id = "u_tech"
        /\ loc[r].notification_id.user_id = "u_admin"
        /\ \E n \in notifications :
              /\ notification_id(n) = loc[r].notification_id
              /\ ~n.read
        /\ \E n \in notifications : n.user_id = "u_tech" /\ n.read

(* --------------------------- claims on the roles ---------------------- *)

\* C29: a role changes only by an update_user_role of an authenticated
\* admin. The role of a stored user changes only in the update of an
\* update_user_role whose caller had a session and the role admin when the
\* handler read it, which is answered 200; an update_user_role whose caller
\* is read with another role is answered 403 and goes no further; a user is
\* added only by the insert of create_session or create_technician, as a
\* technician; and no user is removed
C29_RolesChangeByAdmin ==
    [][/\ DOMAIN users \subseteq DOMAIN users'
       /\ \A u \in DOMAIN users :
             users'[u].role # users[u].role
             => \E r \in Reqs :
                   /\ Step(r, "update_user_role", "update")
                   /\ loc[r].user.role = "admin"
                   /\ loc[r].user_id = u
                   /\ Answered(r, Reply("update_user_role", 200))
       /\ \A r \in Reqs :
             (/\ Step(r, "update_user_role", "find_user")
              /\ loc[r].session_user \in DOMAIN users
              /\ users[loc[r].session_user].role # "admin")
             => /\ Answered(r, Reply("update_user_role", 403))
                /\ users' = users
       /\ \A r \in Reqs :
             (Step(r, "update_user_role", "find_session"))
             => /\ users' = users
                /\ pc'[r] = "find_user"
                   => Authenticates(loc[r].req, loc'[r].session_user)
       /\ \A u \in DOMAIN users' \ DOMAIN users :
             /\ users'[u].role = "technician"
             /\ \E r \in Reqs :
                   \/ Step(r, "create_session", "insert_user")
                   \/ Step(r, "create_technician", "insert_user")]_vars

\* the technician, promoted by the admin, has just made the admin a
\* technician, next to a user that was created in between
C29_Witness ==
    /\ resp = Reply("update_user_role", 200)
    /\ \A r \in Reqs : pc[r] = "idle"
    /\ users["u_tech"].role = "admin"
    /\ users["u_admin"].role = "technician"
    /\ "u_1" \in DOMAIN users
    /\ users["u_1"].role = "technician"

(* ------------------- claims on deleting a distributor ----------------- *)

\* C30: a delete_distributor(d) that succeeds removes d with its
\* delete_one, and its update_many, after which it is answered 200, leaves
\* no job that references d: every job that did has its distributor
\* cleared, which puts it into the unassigned bucket of the daily parts, and
\* is otherwise unchanged, and every other job is unchanged; a delete of an
\* unknown distributor is answered 404 and changes neither jobs nor
\* distributors, and no other step of the handler changes a job
C30_DeleteClearsJobs ==
    [][\A r \in Reqs :
         LET d == loc[r].distributor_id
             date == [form |-> "date", day |-> 1]
             a == daily_parts_result(jobs', distributors', date)
         IN /\ Step(r, "delete_distributor", "delete")
               => /\ jobs' = jobs
                  /\ IF d \in DOMAIN distributors
                     THEN /\ DOMAIN distributors' = DOMAIN distributors \ {d}
                          /\ pc'[r] = "clear_jobs"
                          /\ resp' = resp
                     ELSE /\ distributors' = distributors
                          /\ Answered(r, Deleted(d, 404))
            /\ Step(r, "delete_distributor", "clear_jobs")
               => /\ Answered(r, Deleted(d, 200))
                  /\ distributors' = distributors
                  /\ DOMAIN jobs' = DOMAIN jobs
                  /\ \A j \in DOMAIN jobs :
                        /\ jobs'[j].distributor # Some(d)
                        /\ jobs'[j] =
                              IF jobs[j].distributor = Some(d)
                              THEN [jobs[j] EXCEPT !.distributor = None]
                              ELSE jobs[j]
                        /\ (jobs[j].distributor = Some(d)
                               /\ j \in jobs_with_parts(jobs, date))
                           => /\ j \in Range(a.unassigned)
                              /\ GroupsOf(a, j) = {}
            /\ (\E l \in {"find_session", "find_user"} :
                   Step(r, "delete_distributor", l))
               => jobs' = jobs /\ distributors' = distributors
            /\ (resp'.op = "delete_distributor" /\ resp'.code = 200
                  /\ Answered(r, resp'))
               => Step(r, "delete_distributor", "clear_jobs")]_vars

\* the first distributor has just been deleted while the update_job that
\* wrote it to the first job waits for its read-back: the job that named it
\* names none, and the second distributor is still stored
C30_Witness ==
    /\ resp = Deleted(DistIds[1], 200)
    /\ pc[Other] = "idle"
    /\ Awaits(Writer, "update_job", "read_back")
    /\ loc[Writer].job_id = 1
    /\ loc[Writer].update_data = [x \in {"distributor"} |-> Some(DistIds[1])]
    /\ DOMAIN distributors = {DistIds[2]}
    /\ DOMAIN jobs = {1, 2}
    /\ jobs[1].distributor = None
    /\ jobs[1].status = "completed"
====
